---- MODULE Spec2Model ----
(***************************************************************************)
(* Entity manager of NetAuth as a state machine over the Storage Port and  *)
(* the Secret Sealer, and its registry of token services.                  *)
(*   Spec      the EMDataStore of internal/server/entity_manager/entity.go *)
(*             with its create, bootstrap, delete, capability, secret and  *)
(*             metadata operations;                                        *)
(*   SpecTree  the tree Manager, whose operations run the hook chain of a  *)
(*             named stage;                                                *)
(*   SpecToken the registry of token services of package token, with its   *)
(*             deferred callbacks and the configuration of the tokens;     *)
(*   SpecBoot  two calls of MakeBootstrap of entity.go running             *)
(*             concurrently, interleaved between their statements;         *)
(*   SpecCreate two calls of newEntity of entity.go running concurrently,  *)
(*             interleaved between their calls of the Storage Port;        *)
(*   SpecStages the tree Manager started with a hook registry that may     *)
(*             lack the chain of one stage.                                *)
(* Callers are served one call at a time: Call, the run of the operation,  *)
(* Return.                                                                 *)
(***************************************************************************)
EXTENDS Integers, Sequences, FiniteSets, TLC

(* ------------------------------ bounds --------------------------------- *)

\* setEntityCapabilityByID is called to add a capability only while the
\* stored entities hold fewer than MaxCaps capabilities in all
MaxCaps == 1

IDs == {"alice", "bob"}
Secrets == {"s1", "s2"}
\* the uidNumbers a caller may ask for; -1 asks for the next free one
Numbers == {-1, 1, 2}

(* --------------------------- error values ------------------------------ *)

nil == "nil"
E_DUPLICATE_ID == "E_DUPLICATE_ID"
E_DUPLICATE_UIDNUMBER == "E_DUPLICATE_UIDNUMBER"
E_NO_ENTITY == "E_NO_ENTITY"
E_ENTITY_BADAUTH == "E_ENTITY_BADAUTH"
E_ENTITY_UNQUALIFIED == "E_ENTITY_UNQUALIFIED"
\* an I/O failure of the storage engine, a failure of the hashing primitive
ErrStorage == "ErrStorage"
ErrCrypto == "ErrCrypto"

(* ---------------------------- capabilities ----------------------------- *)

\* pb.Capability_value: capability name -> enum number
Capability_value ==
    [GLOBAL_ROOT |-> 0, CREATE_ENTITY |-> 1, DELETE_ENTITY |-> 2,
     MODIFY_ENTITY_META |-> 3, CHANGE_ENTITY_SECRET |-> 4]

Capability_GLOBAL_ROOT == Capability_value["GLOBAL_ROOT"]

CapNames == DOMAIN Capability_value

\* pb.Capability(pb.Capability_value[c]): a Go map read of a missing key
\* gives the zero value
CapOf(c) == IF c \in CapNames THEN Capability_value[c] ELSE 0

(* ---------------------------- Secret Sealer ---------------------------- *)

\* a secret as newEntity first stores it: the caller's string, unsealed
Plain(secret) == [sealed |-> FALSE, text |-> secret]

\* crypto.SecureSecret: the sealed form of a plaintext
SecureSecret(secret) == [sealed |-> TRUE, text |-> secret]

\* crypto.VerifySecret(secret, hash) = nil
\* proto.String("<REDACTED>"): what a copy handed out carries as its secret
Redacted == Plain("<REDACTED>")

VerifySecret(secret, hash) == hash.sealed /\ hash.text = secret

(* ------------------------------- state --------------------------------- *)

\* The service serves its callers one call at a time: a caller issues a
\* call, the called operation runs to completion, the caller takes the
\* result.
VARIABLES
    db,              \* Storage Port: stored ID -> entity record
    bootstrap_done,  \* emds.bootstrap_done
    call,            \* the call being served: the operation and its arguments
    ret,             \* its result: the error returned, the external calls made
    token,           \* package token: lb, services, callbacks, lifetime
    clock,           \* what time.Now() returns
    history,         \* the Register calls made so far, the last IssuedAt returned
    proc,            \* the concurrent calls: the position and the locals of each
    registry         \* m.entityProcesses: the hook chain of each stage

vars == <<db, bootstrap_done, call, ret, token, clock, history, proc, registry>>

\* the state of package token and what is recorded about its calls
tokenVars == <<token, clock, history>>

\* &pb.EntityMeta{}
EmptyMeta == [Capabilities |-> <<>>, Groups |-> <<>>, DisplayName |-> "", Locked |-> FALSE]

\* the working state of one operation: the store, the number of fallible
\* external calls made so far, the external calls in order, and the error
Begin(d) == [db |-> d, n |-> 0, calls |-> <<>>, err |-> nil]

Called(st, what) == [st EXCEPT !.calls = Append(@, what)]

Fail(st, e) == [st EXCEPT !.err = e]

Stored(d, ID) == ID \in DOMAIN d

\* db.LoadEntityNumber(n) finds an entity
NumberUsed(d, n) == \E x \in DOMAIN d : d[x].Number = n

\* db.SaveEntity(e): writes the record under e.ID, unless the storage fails
SaveEntity(st, F, e) ==
    LET k == st.n + 1
    IN  IF k \in F
        THEN Fail([Called(st, "SaveEntity failed") EXCEPT !.n = k], ErrStorage)
        ELSE [db |-> [x \in DOMAIN st.db \cup {e.ID} |-> IF x = e.ID THEN e ELSE st.db[x]],
              n |-> k,
              calls |-> Append(st.calls, "SaveEntity"),
              err |-> nil]

\* db.DeleteEntity(ID)
DeleteEntity_db(st, ID) ==
    LET s1 == Called(st, "DeleteEntity")
    IN  IF ~Stored(st.db, ID)
        THEN Fail(s1, E_NO_ENTITY)
        ELSE [s1 EXCEPT !.db = [x \in DOMAIN st.db \ {ID} |-> st.db[x]], !.err = nil]

\* emds.nextUIDNumber(): the smallest positive number no stored entity has
nextUIDNumber(d) ==
    CHOOSE n \in 1..(Cardinality(DOMAIN d) + 1) :
        /\ ~NumberUsed(d, n)
        /\ \A m \in 1..(n - 1) : NumberUsed(d, m)

(* ------------------- entity.go: the internal operations ---------------- *)

\* setEntitySecretByID that stores the secret as given, not sealed
setEntitySecretByID_Unsealed(st, F, ID, secret) ==
    LET s1 == Called(st, "LoadEntity")
    IN  IF ~Stored(s1.db, ID)
        THEN Fail(s1, E_NO_ENTITY)
        ELSE SaveEntity(s1, F, [s1.db[ID] EXCEPT !.Secret = Plain(secret)])

\* setEntitySecretByID: load, seal, store
setEntitySecretByID(st, F, ID, secret) ==
    LET s1 == Called(st, "LoadEntity")
    IN  IF ~Stored(s1.db, ID)
        THEN Fail(s1, E_NO_ENTITY)
        ELSE LET k == s1.n + 1
             IN  IF k \in F
                 THEN Fail([Called(s1, "SecureSecret failed") EXCEPT !.n = k], ErrCrypto)
                 ELSE SaveEntity([Called(s1, "SecureSecret") EXCEPT !.n = k], F,
                                 [s1.db[ID] EXCEPT !.Secret = SecureSecret(secret)])

\* newEntity without the lookup of the number: a used number is not rejected
newEntity_NoNumberLookup(st, F, ID, uidNumber, secret) ==
    LET s1 == Called(st, "LoadEntity")
    IN  IF Stored(s1.db, ID)
        THEN Fail(s1, E_DUPLICATE_ID)
        ELSE LET num == IF uidNumber = -1 THEN nextUIDNumber(s1.db) ELSE uidNumber
                 s3 == SaveEntity(s1, F, [ID |-> ID, Number |-> num,
                                          Secret |-> Plain(secret),
                                          Meta |-> EmptyMeta])
             IN  IF s3.err # nil
                 THEN s3
                 ELSE setEntitySecretByID(s3, F, ID, secret)

\* newEntity that stores the number as given, the sentinel -1 too
newEntity_NumberAsGiven(st, F, ID, uidNumber, secret) ==
    LET s1 == Called(st, "LoadEntity")
    IN  IF Stored(s1.db, ID)
        THEN Fail(s1, E_DUPLICATE_ID)
        ELSE LET s2 == Called(s1, "LoadEntityNumber")
             IN  IF NumberUsed(s2.db, uidNumber)
                 THEN Fail(s2, E_DUPLICATE_UIDNUMBER)
                 ELSE LET s3 == SaveEntity(s2, F, [ID |-> ID, Number |-> uidNumber,
                                                   Secret |-> Plain(secret),
                                                   Meta |-> EmptyMeta])
                      IN  IF s3.err # nil
                          THEN s3
                          ELSE setEntitySecretByID(s3, F, ID, secret)

\* newEntity without the lookup of the ID: a stored ID is not rejected
newEntity_NoIDLookup(st, F, ID, uidNumber, secret) ==
    LET s2 == Called(st, "LoadEntityNumber")
    IN  IF NumberUsed(s2.db, uidNumber)
        THEN Fail(s2, E_DUPLICATE_UIDNUMBER)
        ELSE LET num == IF uidNumber = -1 THEN nextUIDNumber(s2.db) ELSE uidNumber
                 s3 == SaveEntity(s2, F, [ID |-> ID, Number |-> num,
                                          Secret |-> Plain(secret),
                                          Meta |-> EmptyMeta])
             IN  IF s3.err # nil
                 THEN s3
                 ELSE setEntitySecretByID(s3, F, ID, secret)

\* newEntity: reject a stored ID, reject a used number, pick a number for
\* -1, save the record with the secret as given, then seal the secret
newEntity(st, F, ID, uidNumber, secret) ==
    LET s1 == Called(st, "LoadEntity")
    IN  IF Stored(s1.db, ID)
        THEN Fail(s1, E_DUPLICATE_ID)
        ELSE LET s2 == Called(s1, "LoadEntityNumber")
             IN  IF NumberUsed(s2.db, uidNumber)
                 THEN Fail(s2, E_DUPLICATE_UIDNUMBER)
                 ELSE LET num == IF uidNumber = -1 THEN nextUIDNumber(s2.db) ELSE uidNumber
                          s3 == SaveEntity(s2, F, [ID |-> ID, Number |-> num,
                                                   Secret |-> Plain(secret),
                                                   Meta |-> EmptyMeta])
                      IN  IF s3.err # nil
                          THEN s3
                          ELSE setEntitySecretByID(s3, F, ID, secret)

\* deleteEntityByID returning nil whatever db.DeleteEntity returned
deleteEntityByID_ErrorSwallowed(st, ID) == Fail(DeleteEntity_db(st, ID), nil)

\* deleteEntityByID
deleteEntityByID(st, ID) == DeleteEntity_db(st, ID)

\* the range loop of checkEntityCapability and setEntityCapability
Holds(caps, a) == \E i \in 1..Len(caps) : caps[i] = a

\* checkEntityCapability without the test for GLOBAL_ROOT
checkEntityCapability_NamedOnly(e, c) ==
    IF \E i \in 1..Len(e.Meta.Capabilities) : e.Meta.Capabilities[i] = CapOf(c)
    THEN nil
    ELSE E_ENTITY_UNQUALIFIED

\* checkEntityCapability(e, c): nil when some direct capability is
\* GLOBAL_ROOT or the number of the name c
checkEntityCapability(e, c) ==
    IF \E i \in 1..Len(e.Meta.Capabilities) :
           \/ e.Meta.Capabilities[i] = Capability_GLOBAL_ROOT
           \/ e.Meta.Capabilities[i] = CapOf(c)
    THEN nil
    ELSE E_ENTITY_UNQUALIFIED

\* checkEntityCapabilityByID
checkEntityCapabilityByID(st, ID, c) ==
    LET s1 == Called(st, "LoadEntity")
    IN  IF ~Stored(s1.db, ID)
        THEN Fail(s1, E_NO_ENTITY)
        ELSE Fail(s1, checkEntityCapability(s1.db[ID], c))

\* setEntityCapability without the test for a capability already held
setEntityCapability_AlwaysAppends(st, F, e, c) ==
    IF c = ""
    THEN Fail(st, nil)
    ELSE SaveEntity(st, F, [e EXCEPT !.Meta.Capabilities = Append(@, CapOf(c))])

\* setEntityCapability(e, c)
setEntityCapability(st, F, e, c) ==
    IF c = ""
    THEN Fail(st, nil)
    ELSE IF Holds(e.Meta.Capabilities, CapOf(c))
         THEN Fail(st, nil)
         ELSE SaveEntity(st, F, [e EXCEPT !.Meta.Capabilities = Append(@, CapOf(c))])

\* setEntityCapabilityByID
setEntityCapabilityByID(st, F, ID, c) ==
    LET s1 == Called(st, "LoadEntity")
    IN  IF ~Stored(s1.db, ID)
        THEN Fail(s1, E_NO_ENTITY)
        ELSE setEntityCapability(s1, F, s1.db[ID], c)

\* ValidateSecret: load, verify the secret against the stored one
ValidateSecret(st, ID, secret) ==
    LET s1 == Called(st, "LoadEntity")
    IN  IF ~Stored(s1.db, ID)
        THEN Fail(s1, E_NO_ENTITY)
        ELSE LET s2 == Called(s1, "VerifySecret")
             IN  IF VerifySecret(secret, s2.db[ID].Secret)
                 THEN Fail(s2, nil)
                 ELSE Fail(s2, E_ENTITY_BADAUTH)

\* validateEntityCapabilityAndSecret with the capability checked first
validateEntityCapabilityAndSecret_CapabilityFirst(st, ID, secret, capability) ==
    LET s1 == checkEntityCapabilityByID(st, ID, capability)
    IN  IF s1.err # nil
        THEN s1
        ELSE ValidateSecret(s1, ID, secret)

\* validateEntityCapabilityAndSecret without the capability check
validateEntityCapabilityAndSecret_IdentityOnly(st, ID, secret, capability) ==
    ValidateSecret(st, ID, secret)

\* validateEntityCapabilityAndSecret: identity first, then capability
validateEntityCapabilityAndSecret(st, ID, secret, capability) ==
    LET s1 == ValidateSecret(st, ID, secret)
    IN  IF s1.err # nil
        THEN s1
        ELSE checkEntityCapabilityByID(s1, ID, capability)

\* proto.Merge(meta, newMeta) with nothing of newMeta set to nil before
MergeMeta_NothingStripped(meta, newMeta) ==
    [Capabilities |-> meta.Capabilities \o newMeta.Capabilities,
     Groups |-> meta.Groups \o newMeta.Groups,
     DisplayName |-> IF newMeta.DisplayName # "" THEN newMeta.DisplayName
                     ELSE meta.DisplayName,
     Locked |-> meta.Locked]

\* proto.Merge(meta, newMeta) after newMeta.Capabilities and newMeta.Groups
\* were set to nil: a set scalar overwrites, a repeated field is appended
MergeMeta(meta, newMeta) ==
    LET stripped == [newMeta EXCEPT !.Capabilities = <<>>, !.Groups = <<>>]
    IN  [Capabilities |-> meta.Capabilities \o stripped.Capabilities,
         Groups |-> meta.Groups \o stripped.Groups,
         DisplayName |-> IF stripped.DisplayName # "" THEN stripped.DisplayName
                         ELSE meta.DisplayName,
         Locked |-> meta.Locked]

\* updateEntityMeta(e, newMeta)
updateEntityMeta(st, F, e, newMeta) ==
    SaveEntity(st, F, [e EXCEPT !.Meta = MergeMeta(e.Meta, newMeta)])

(* -------------------- entity.go: the public operations ----------------- *)

\* a nil *pb.Entity
NilEntity == [nil |-> TRUE]

\* safeCopyEntity that redacts the record it was given and returns it
safeCopyEntity_Alias(e) ==
    LET dup == [e EXCEPT !.Secret = Redacted]
    IN  [dup |-> dup, e |-> dup]

\* safeCopyEntity(e): dup is a fresh record that proto.Merge fills from e, and
\* the sentinel is assigned to dup's field. The result is dup together with
\* the record e points to as the call leaves it.
safeCopyEntity(e) ==
    LET dup == [e EXCEPT !.Secret = Redacted]
    IN  [dup |-> dup, e |-> e]

\* GetEntity(ID): the working state and the entity returned. The record
\* LoadEntity returns is the stored one. safeCopyEntity is the one of the
\* tree Manager; it reports no error.
GetEntity(st, ID) ==
    LET s1 == Called(st, "LoadEntity")
    IN  IF ~Stored(s1.db, ID)
        THEN [st |-> Fail(s1, E_NO_ENTITY), val |-> NilEntity]
        ELSE LET c == safeCopyEntity(s1.db[ID])
             IN  [st |-> [s1 EXCEPT !.db[ID] = c.e], val |-> c.dup]

\* NewEntity(requestID, requestSecret, newID, newUIDNumber, newSecret)
NewEntity(st, F, requestID, requestSecret, newID, newUIDNumber, newSecret) ==
    LET s1 == validateEntityCapabilityAndSecret(st, requestID, requestSecret, "CREATE_ENTITY")
    IN  IF s1.err # nil THEN s1 ELSE newEntity(s1, F, newID, newUIDNumber, newSecret)

\* DeleteEntity(requestID, requestSecret, deleteID)
DeleteEntity(st, requestID, requestSecret, deleteID) ==
    LET s1 == validateEntityCapabilityAndSecret(st, requestID, requestSecret, "DELETE_ENTITY")
    IN  IF s1.err # nil THEN s1 ELSE deleteEntityByID(s1, deleteID)

\* the authorization step of ChangeSecret and UpdateEntityMeta
Authorize(st, ID, secret, target, capability) ==
    IF ID # target
    THEN validateEntityCapabilityAndSecret(st, ID, secret, capability)
    ELSE ValidateSecret(st, ID, secret)

\* ChangeSecret(ID, secret, changeID, changeSecret)
ChangeSecret(st, F, ID, secret, changeID, changeSecret) ==
    LET s1 == Authorize(st, ID, secret, changeID, "CHANGE_ENTITY_SECRET")
    IN  IF s1.err # nil THEN s1 ELSE setEntitySecretByID(s1, F, changeID, changeSecret)

\* UpdateEntityMeta(requestID, requestSecret, modEntityID, newMeta)
UpdateEntityMeta(st, F, requestID, requestSecret, modEntityID, newMeta) ==
    LET s1 == Authorize(st, requestID, requestSecret, modEntityID, "MODIFY_ENTITY_META")
    IN  IF s1.err # nil
        THEN s1
        ELSE LET s2 == Called(s1, "LoadEntity")
             IN  IF ~Stored(s2.db, modEntityID)
                 THEN Fail(s2, E_NO_ENTITY)
                 ELSE updateEntityMeta(s2, F, s2.db[modEntityID], newMeta)

\* MakeBootstrap that sets the secret given on a stored entity too
MakeBootstrap_SecretReset(st, done, F, ID, secret) ==
    IF done
    THEN [st |-> st, done |-> done]
    ELSE LET s1 == Called(st, "LoadEntity")
         IN  IF Stored(s1.db, ID)
             THEN [st |-> Fail(setEntityCapabilityByID(
                                   setEntitySecretByID(s1, F, ID, secret),
                                   F, ID, "GLOBAL_ROOT"), nil),
                   done |-> TRUE]
             ELSE [st |-> Fail(setEntityCapabilityByID(newEntity(s1, F, ID, -1, secret),
                                                       F, ID, "GLOBAL_ROOT"), nil),
                   done |-> TRUE]

\* MakeBootstrap without the test of the flag
MakeBootstrap_NoFlagTest(st, done, F, ID, secret) ==
    LET s1 == Called(st, "LoadEntity")
    IN  IF Stored(s1.db, ID)
        THEN [st |-> Fail(setEntityCapability(s1, F, s1.db[ID], "GLOBAL_ROOT"), nil),
              done |-> TRUE]
        ELSE [st |-> Fail(setEntityCapabilityByID(newEntity(s1, F, ID, -1, secret),
                                                  F, ID, "GLOBAL_ROOT"), nil),
              done |-> TRUE]

\* MakeBootstrap(ID, secret): nothing once the flag is set; else promote a
\* stored entity, or create one and promote it; every error is logged and
\* dropped, and the flag is set
MakeBootstrap(st, done, F, ID, secret) ==
    IF done
    THEN [st |-> st, done |-> done]
    ELSE LET s1 == Called(st, "LoadEntity")
         IN  IF Stored(s1.db, ID)
             THEN [st |-> Fail(setEntityCapability(s1, F, s1.db[ID], "GLOBAL_ROOT"), nil),
                   done |-> TRUE]
             ELSE [st |-> Fail(setEntityCapabilityByID(newEntity(s1, F, ID, -1, secret),
                                                       F, ID, "GLOBAL_ROOT"), nil),
                   done |-> TRUE]

\* DisableBootstrap()
DisableBootstrap(done) == TRUE

(* ------------------------------ inputs --------------------------------- *)

\* capability names a caller may pass: the enumeration, the empty name and
\* a name outside the enumeration
CapInputs == CapNames \cup {"", "NO_SUCH_CAPABILITY"}

\* metadata patches a caller may pass
Patches ==
    {[Capabilities |-> <<>>, Groups |-> <<>>, DisplayName |-> "n1"],
     [Capabilities |-> <<Capability_GLOBAL_ROOT>>, Groups |-> <<"wheel">>, DisplayName |-> "n1"],
     [Capabilities |-> <<Capability_GLOBAL_ROOT>>, Groups |-> <<"wheel">>, DisplayName |-> ""]}

\* which fallible external calls (SaveEntity, SecureSecret) of an operation
\* fail, by their position in the operation: none, the first or the second
FailSets == {{}, {1}, {2}}

\* the capabilities the stored entities hold in all
TotalCaps(d) ==
    Cardinality(UNION {{<<x, i>> : i \in 1..Len(d[x].Meta.Capabilities)} : x \in DOMAIN d})

\* the calls of the operations of entity.go, with their arguments
Calls ==
    {[op |-> "newEntity", ID |-> i, uidNumber |-> n, secret |-> s] :
        i \in IDs, n \in Numbers, s \in Secrets}
    \cup {[op |-> "NewEntity", requestID |-> r, requestSecret |-> rs, newID |-> i,
           newUIDNumber |-> n, newSecret |-> s] :
        r \in IDs, rs \in Secrets, i \in IDs, n \in Numbers, s \in Secrets}
    \cup {[op |-> "MakeBootstrap", ID |-> i, secret |-> s] : i \in IDs, s \in Secrets}
    \cup {[op |-> "DisableBootstrap"]}
    \cup {[op |-> "deleteEntityByID", ID |-> i] : i \in IDs}
    \cup {[op |-> "DeleteEntity", requestID |-> r, requestSecret |-> rs, deleteID |-> i] :
        r \in IDs, rs \in Secrets, i \in IDs}
    \cup {[op |-> "checkEntityCapabilityByID", ID |-> i, c |-> c] : i \in IDs, c \in CapInputs}
    \cup {[op |-> "setEntityCapabilityByID", ID |-> i, c |-> c] : i \in IDs, c \in CapInputs}
    \cup {[op |-> "setEntitySecretByID", ID |-> i, secret |-> s] : i \in IDs, s \in Secrets}
    \cup {[op |-> "ChangeSecret", ID |-> r, secret |-> rs, changeID |-> i, changeSecret |-> s] :
        r \in IDs, rs \in Secrets, i \in IDs, s \in Secrets}
    \cup {[op |-> "ValidateSecret", ID |-> i, secret |-> s] : i \in IDs, s \in Secrets}
    \cup {[op |-> "GetEntity", ID |-> i] : i \in IDs}
    \cup {[op |-> "validateEntityCapabilityAndSecret", ID |-> i, secret |-> s, capability |-> c] :
        i \in IDs, s \in Secrets, c \in CapInputs}
    \cup {[op |-> "UpdateEntityMeta", requestID |-> r, requestSecret |-> rs,
           modEntityID |-> i, newMeta |-> m] :
        r \in IDs, rs \in Secrets, i \in IDs, m \in Patches}

\* the goroutines that call an operation concurrently
Procs == {"p1", "p2"}

\* a goroutine about to call MakeBootstrap or newEntity
Ready == [pc |-> "ready", ID |-> "", uidNumber |-> 0, secret |-> "", seen |-> FALSE,
          e |-> NilEntity, acted |-> FALSE, err |-> nil, asked |-> 0]

NoCall == [op |-> "none"]
NoRet == [done |-> FALSE, err |-> nil, calls |-> <<>>, val |-> NilEntity]

(* ------------------------------ actions -------------------------------- *)

\* the stages and their hook chains, as registered at start-up, in order
entityProcesses ==
    [CREATE |-> <<"ensure-no-duplicate-id", "ensure-no-duplicate-number", "set-entity-id",
                  "set-entity-number", "save-entity", "set-entity-secret", "save-entity">>,
     DESTROY |-> <<"load-entity", "destroy-entity">>,
     LOCK |-> <<"load-entity", "set-entity-locked", "save-entity">>,
     UNLOCK |-> <<"load-entity", "set-entity-unlocked", "save-entity">>]
    @@ ("SET-SECRET" :> <<"load-entity", "set-entity-secret", "save-entity">>)
    @@ ("VALIDATE-IDENTITY" :> <<"load-entity", "validate-entity-unlocked",
                                 "validate-entity-secret">>)
    @@ ("FETCH" :> <<"load-entity">>)
    @@ ("SET-CAPABILITY" :> <<"load-entity", "set-entity-capability", "save-entity">>)
    @@ ("DROP-CAPABILITY" :> <<"load-entity", "remove-entity-capability", "save-entity">>)
    @@ ("MERGE-METADATA" :> <<"load-entity", "merge-entity-meta", "save-entity">>)
    @@ ("BOOTSTRAP-SERVER" :> <<"load-or-create-entity", "set-entity-capability",
                                "save-entity">>)

\* the state after construction, with m the hook chains registered
Started(m) ==
    /\ db = <<>>
    /\ bootstrap_done = FALSE
    /\ call = NoCall
    /\ ret = NoRet
    /\ token = [lb |-> "nil", services |-> <<>>, callbacks |-> <<>>, lifetime |-> 0]
    /\ clock = 0
    /\ history = [registered |-> <<>>, issued |-> <<>>]
    /\ proc = [p \in Procs |-> Ready]
    /\ registry = m

Init == Started(entityProcesses)

\* the call c of setEntityCapabilityByID keeps the stored capabilities within
\* MaxCaps: there is room for one more, or the call cannot add one (no name
\* is given, or the entity holds the capability)
WithinCaps(c) ==
    \/ TotalCaps(db) < MaxCaps
    \/ c.c = ""
    \/ Stored(db, c.ID) /\ Holds(db[c.ID].Meta.Capabilities, CapOf(c.c))

\* a caller calls an operation
Call ==
    /\ call = NoCall
    /\ \E c \in Calls :
        /\ c.op = "setEntityCapabilityByID" => WithinCaps(c)
        /\ call' = c
    /\ UNCHANGED <<db, bootstrap_done, ret, tokenVars, proc, registry>>

\* the caller takes the result
Return ==
    /\ ret.done
    /\ call' = NoCall
    /\ ret' = NoRet
    /\ UNCHANGED <<db, bootstrap_done, tokenVars, proc, registry>>

\* the called operation is op and has not run yet
Serving(op) == call.op = op /\ ~ret.done

\* the operation ends in working state st and returns the entity val
DoneWith(st, val) ==
    /\ db' = st.db
    /\ ret' = [done |-> TRUE, err |-> st.err, calls |-> st.calls, val |-> val]
    /\ UNCHANGED <<call, tokenVars, proc, registry>>

\* the operation ends in working state st and returns no entity
Done(st) == DoneWith(st, NilEntity)

newEntityStep ==
    /\ Serving("newEntity")
    /\ \E F \in FailSets : Done(newEntity(Begin(db), F, call.ID, call.uidNumber, call.secret))
    /\ UNCHANGED bootstrap_done

NewEntityStep ==
    /\ Serving("NewEntity")
    /\ \E F \in FailSets :
        Done(NewEntity(Begin(db), F, call.requestID, call.requestSecret, call.newID,
                       call.newUIDNumber, call.newSecret))
    /\ UNCHANGED bootstrap_done

MakeBootstrapStep ==
    /\ Serving("MakeBootstrap")
    /\ \E F \in FailSets :
        LET r == MakeBootstrap(Begin(db), bootstrap_done, F, call.ID, call.secret)
        IN  /\ Done(r.st)
            /\ bootstrap_done' = r.done

DisableBootstrapStep ==
    /\ Serving("DisableBootstrap")
    /\ bootstrap_done' = DisableBootstrap(bootstrap_done)
    /\ Done(Begin(db))

deleteEntityByIDStep ==
    /\ Serving("deleteEntityByID")
    /\ Done(deleteEntityByID(Begin(db), call.ID))
    /\ UNCHANGED bootstrap_done

DeleteEntityStep ==
    /\ Serving("DeleteEntity")
    /\ Done(DeleteEntity(Begin(db), call.requestID, call.requestSecret, call.deleteID))
    /\ UNCHANGED bootstrap_done

checkEntityCapabilityByIDStep ==
    /\ Serving("checkEntityCapabilityByID")
    /\ Done(checkEntityCapabilityByID(Begin(db), call.ID, call.c))
    /\ UNCHANGED bootstrap_done

setEntityCapabilityByIDStep ==
    /\ Serving("setEntityCapabilityByID")
    /\ \E F \in FailSets : Done(setEntityCapabilityByID(Begin(db), F, call.ID, call.c))
    /\ UNCHANGED bootstrap_done

setEntitySecretByIDStep ==
    /\ Serving("setEntitySecretByID")
    /\ \E F \in FailSets : Done(setEntitySecretByID(Begin(db), F, call.ID, call.secret))
    /\ UNCHANGED bootstrap_done

ChangeSecretStep ==
    /\ Serving("ChangeSecret")
    /\ \E F \in FailSets :
        Done(ChangeSecret(Begin(db), F, call.ID, call.secret, call.changeID, call.changeSecret))
    /\ UNCHANGED bootstrap_done

ValidateSecretStep ==
    /\ Serving("ValidateSecret")
    /\ Done(ValidateSecret(Begin(db), call.ID, call.secret))
    /\ UNCHANGED bootstrap_done

GetEntityStep ==
    /\ Serving("GetEntity")
    /\ LET r == GetEntity(Begin(db), call.ID) IN DoneWith(r.st, r.val)
    /\ UNCHANGED bootstrap_done

validateEntityCapabilityAndSecretStep ==
    /\ Serving("validateEntityCapabilityAndSecret")
    /\ Done(validateEntityCapabilityAndSecret(Begin(db), call.ID, call.secret, call.capability))
    /\ UNCHANGED bootstrap_done

UpdateEntityMetaStep ==
    /\ Serving("UpdateEntityMeta")
    /\ \E F \in FailSets :
        Done(UpdateEntityMeta(Begin(db), F, call.requestID, call.requestSecret,
                              call.modEntityID, call.newMeta))
    /\ UNCHANGED bootstrap_done

Next ==
    \/ Call
    \/ newEntityStep
    \/ NewEntityStep
    \/ MakeBootstrapStep
    \/ DisableBootstrapStep
    \/ deleteEntityByIDStep
    \/ DeleteEntityStep
    \/ checkEntityCapabilityByIDStep
    \/ setEntityCapabilityByIDStep
    \/ setEntitySecretByIDStep
    \/ ChangeSecretStep
    \/ ValidateSecretStep
    \/ GetEntityStep
    \/ validateEntityCapabilityAndSecretStep
    \/ UpdateEntityMetaStep
    \/ Return

Spec == Init /\ [][Next]_vars

(* ----------------------- vocabulary of the properties ----------------- *)

\* this step is the run of the called operation op
Ran(op) == call.op = op /\ ~ret.done /\ ret'.done

\* the called operation op has run and its result is not yet taken
After(op) == call.op = op /\ ret.done

\* no external call of the run failed
NoFailure(calls) ==
    \A i \in 1..Len(calls) : calls[i] \notin {"SaveEntity failed", "SecureSecret failed"}

\* the capability numbers an entity holds directly
Direct(e) == {e.Meta.Capabilities[i] : i \in 1..Len(e.Meta.Capabilities)}

\* the entity ID of store d directly holds GLOBAL_ROOT or the capability of
\* the enumeration named c
Qualified(d, ID, c) ==
    /\ Stored(d, ID)
    /\ \/ Capability_GLOBAL_ROOT \in Direct(d[ID])
       \/ c \in CapNames /\ Capability_value[c] \in Direct(d[ID])

\* the stored secret of ID in store d is the sealed form of secret
Verifies(d, ID, secret) ==
    /\ Stored(d, ID)
    /\ d[ID].Secret.sealed
    /\ d[ID].Secret.text = secret

\* the smallest positive number no entity of store d has
SmallestFree(d) ==
    CHOOSE n \in 1..(Cardinality(DOMAIN d) + 1) :
        /\ \A x \in DOMAIN d : d[x].Number # n
        /\ \A m \in 1..(n - 1) : \E x \in DOMAIN d : d[x].Number = m

\* the stores d and e hold the same entities with the same records, but
\* perhaps for ID
OthersSame(d, e, ID) ==
    /\ DOMAIN d \ {ID} = DOMAIN e \ {ID}
    /\ \A x \in DOMAIN d \ {ID} : e[x] = d[x]

(* -------------------------------- C1 ----------------------------------- *)

\* C1: bootstrap is a single irreversible window. No step clears
\* bootstrap_done; a run of MakeBootstrap or DisableBootstrap leaves it set;
\* and a run of MakeBootstrap that finds the flag set leaves the store as it
\* was, whatever its ID and secret.
C1_BootstrapWindow ==
    [][/\ bootstrap_done => bootstrap_done'
       /\ Ran("MakeBootstrap") \/ Ran("DisableBootstrap") => bootstrap_done'
       /\ bootstrap_done /\ Ran("MakeBootstrap") => db' = db]_vars

\* a MakeBootstrap call for an ID that is not stored has found the flag set:
\* it made no external call and the ID is still not stored
C1_Witness ==
    /\ After("MakeBootstrap")
    /\ bootstrap_done
    /\ ret.calls = <<>>
    /\ DOMAIN db # {}
    /\ ~Stored(db, call.ID)

(* -------------------------------- C2 ----------------------------------- *)

\* the requester of the call may act on target with the capability named c
MayAct(requestID, requestSecret, target, c, needed) ==
    /\ Verifies(db, requestID, requestSecret)
    /\ needed \/ requestID # target => Qualified(db, requestID, c)

\* when the authorization step a returns an error, the run returns it and
\* leaves the store as it was
Refused(a) == a.err # nil => db' = db /\ ret'.err = a.err

\* C2: no public write operation changes the store for an unauthorized
\* requester. A run of NewEntity, of DeleteEntity, of ChangeSecret on
\* another entity or of UpdateEntityMeta on another entity changes the store
\* only if the requester's secret verifies and the requester directly holds
\* the action's capability or GLOBAL_ROOT; a run of ChangeSecret or
\* UpdateEntityMeta on oneself changes it only if the requester's secret
\* verifies; and when the authorization step returns an error, the run
\* returns that error and leaves the store unchanged.
C2_NoUnauthorizedWrite ==
    [][/\ Ran("NewEntity") =>
            /\ db' # db => MayAct(call.requestID, call.requestSecret, call.newID,
                                  "CREATE_ENTITY", TRUE)
            /\ Refused(validateEntityCapabilityAndSecret(
                           Begin(db), call.requestID, call.requestSecret, "CREATE_ENTITY"))
       /\ Ran("DeleteEntity") =>
            /\ db' # db => MayAct(call.requestID, call.requestSecret, call.deleteID,
                                  "DELETE_ENTITY", TRUE)
            /\ Refused(validateEntityCapabilityAndSecret(
                           Begin(db), call.requestID, call.requestSecret, "DELETE_ENTITY"))
       /\ Ran("ChangeSecret") =>
            /\ db' # db => MayAct(call.ID, call.secret, call.changeID,
                                  "CHANGE_ENTITY_SECRET", FALSE)
            /\ Refused(Authorize(Begin(db), call.ID, call.secret, call.changeID,
                                 "CHANGE_ENTITY_SECRET"))
       /\ Ran("UpdateEntityMeta") =>
            /\ db' # db => MayAct(call.requestID, call.requestSecret, call.modEntityID,
                                  "MODIFY_ENTITY_META", FALSE)
            /\ Refused(Authorize(Begin(db), call.requestID, call.requestSecret,
                                 call.modEntityID, "MODIFY_ENTITY_META"))]_vars

\* a requester whose secret verifies and who holds a capability, but not
\* the one to create, was refused the creation of an entity that is not
\* stored
C2_Witness ==
    /\ After("NewEntity")
    /\ ret.err = E_ENTITY_UNQUALIFIED
    /\ Verifies(db, call.requestID, call.requestSecret)
    /\ Direct(db[call.requestID]) # {}
    /\ ~Stored(db, call.newID)

(* -------------------------------- C3 ----------------------------------- *)

\* the number n is an explicit number that a stored entity has
NumberTaken(n) == n # -1 /\ \E x \in DOMAIN db : db[x].Number = n

\* the run of a create of ID with number n: a stored ID is rejected; a
\* taken number is rejected, when the ID is new
Rejects(ID, n) ==
    /\ Stored(db, ID) => ret'.err = E_DUPLICATE_ID /\ db' = db
    /\ ~Stored(db, ID) /\ NumberTaken(n) => ret'.err = E_DUPLICATE_UIDNUMBER /\ db' = db

\* the run of a create of ID with number n: a stored ID is rejected; a
\* taken number is rejected, whatever the ID
RejectsWhateverID(ID, n) ==
    /\ Stored(db, ID) => ret'.err = E_DUPLICATE_ID /\ db' = db
    /\ NumberTaken(n) => ret'.err = E_DUPLICATE_UIDNUMBER /\ db' = db

\* C3: duplicate rejection on create, the ID first. A run of newEntity, and
\* a run of NewEntity whose requester is authorized, fails with
\* E_DUPLICATE_ID when the ID is stored, whatever the number, and with
\* E_DUPLICATE_UIDNUMBER when the ID is not stored and the explicit number
\* is the number of a stored entity; in both cases the store is left
\* unchanged.
C3_DuplicateRejected ==
    [][/\ Ran("newEntity") => Rejects(call.ID, call.uidNumber)
       /\ Ran("NewEntity")
          /\ MayAct(call.requestID, call.requestSecret, call.newID, "CREATE_ENTITY", TRUE)
            => Rejects(call.newID, call.newUIDNumber)]_vars

\* C3, with the number's rejection for every ID: a run of newEntity fails
\* with E_DUPLICATE_ID when the ID is stored, and with
\* E_DUPLICATE_UIDNUMBER when the explicit number is the number of a stored
\* entity, whatever the ID; in both cases the store is left unchanged.
C3_WhateverTheID ==
    [][Ran("newEntity") => RejectsWhateverID(call.ID, call.uidNumber)]_vars

\* a create of a stored ID with the number of another stored entity was
\* rejected for its ID
C3_Witness ==
    /\ After("newEntity")
    /\ ret.err = E_DUPLICATE_ID
    /\ Stored(db, call.ID)
    /\ \E x \in DOMAIN db \ {call.ID} : db[x].Number = call.uidNumber

(* -------------------------------- C4 ----------------------------------- *)

\* the operations that neither create nor delete an entity
KeepEntities ==
    {"checkEntityCapabilityByID", "setEntityCapabilityByID", "setEntitySecretByID",
     "ChangeSecret", "ValidateSecret", "validateEntityCapabilityAndSecret",
     "UpdateEntityMeta", "DisableBootstrap"}

\* C4: uniqueness and immutability of identifiers. After every step each
\* stored record is stored under its own ID and no two stored entities have
\* the same Number; every step, a run of a create or a delete too, leaves
\* the ID and the Number of every entity that is stored before and after it
\* unchanged; and a run of an operation that neither creates nor deletes
\* leaves the set of stored IDs unchanged.
C4_Identifiers ==
    [][/\ \A x \in DOMAIN db' : db'[x].ID = x
       /\ \A x, y \in DOMAIN db' : db'[x].Number = db'[y].Number => x = y
       /\ \A x \in DOMAIN db \cap DOMAIN db' :
              db'[x].ID = db[x].ID /\ db'[x].Number = db[x].Number
       /\ call.op \in KeepEntities => DOMAIN db' = DOMAIN db]_vars

\* two entities are stored, and the metadata of one of them was updated
C4_Witness ==
    /\ After("UpdateEntityMeta")
    /\ ret.err = nil
    /\ Cardinality(DOMAIN db) = 2
    /\ db[call.modEntityID].Meta.DisplayName # ""

(* -------------------------------- C5 ----------------------------------- *)

\* the number of ID in store d; 0 when ID is not stored
NumberOf(d, ID) == IF Stored(d, ID) THEN d[ID].Number ELSE 0

\* the numbers of the entities created, in order, by the auto-numbered
\* creates of alice, then bob, the delete of alice and the auto-numbered
\* create of alice
AutoNumbered ==
    LET d1 == newEntity(Begin(<<>>), {}, "alice", -1, "s1").db
        d2 == newEntity(Begin(d1), {}, "bob", -1, "s1").db
        d3 == deleteEntityByID(Begin(d2), "alice").db
        d4 == newEntity(Begin(d3), {}, "alice", -1, "s2").db
    IN  <<NumberOf(d1, "alice"), NumberOf(d2, "bob"), NumberOf(d4, "alice")>>

\* the run of a create of ID with number n: an entity it adds with the
\* sentinel has the smallest positive number free before; it adds one when
\* it returns no error, and returns none when the create is allowed and no
\* external call fails
AutoNumbers(ID, n, allowed) ==
    n = -1 /\ ~Stored(db, ID) =>
        /\ Stored(db', ID) => db'[ID].Number = SmallestFree(db)
        /\ ret'.err = nil => Stored(db', ID)
        /\ allowed /\ NoFailure(ret'.calls) => ret'.err = nil

Promoted(e) ==
    IF Capability_GLOBAL_ROOT \in Direct(e)
    THEN e
    ELSE [e EXCEPT !.Meta.Capabilities = Append(@, Capability_GLOBAL_ROOT)]

\* C6: outcome of the first bootstrap. After a run of MakeBootstrap(ID,
\* secret) with the flag unset in which no external call fails, the entity
\* ID is stored and directly holds GLOBAL_ROOT, and every other entity is as
\* before. If ID was stored, no entity is added and its record is the one
\* before but for GLOBAL_ROOT added to its capabilities: Number, Secret and
\* the other metadata are unchanged. Otherwise exactly the entity ID is
\* added, with the smallest free positive number, GLOBAL_ROOT as its only
\* capability, and a secret that ValidateSecret accepts for the secret
\* given.
C6_FirstBootstrap ==
    [][Ran("MakeBootstrap") /\ ~bootstrap_done /\ NoFailure(ret'.calls) =>
          /\ Stored(db', call.ID)
          /\ Capability_GLOBAL_ROOT \in Direct(db'[call.ID])
          /\ DOMAIN db' = DOMAIN db \cup {call.ID}
          /\ OthersSame(db, db', call.ID)
          /\ IF Stored(db, call.ID)
             THEN db'[call.ID] = Promoted(db[call.ID])
             ELSE /\ db'[call.ID].Number = SmallestFree(db)
                  /\ db'[call.ID].Meta = [EmptyMeta EXCEPT
                         !.Capabilities = <<Capability_GLOBAL_ROOT>>]
                  /\ ValidateSecret(Begin(db'), call.ID, call.secret).err = nil]_vars

\* the first bootstrap promoted a stored entity whose secret is not the one
\* given
C6_Witness ==
    /\ After("MakeBootstrap")
    /\ ret.calls = <<"LoadEntity", "SaveEntity">>
    /\ Cardinality(DOMAIN db) = 2
    /\ db[call.ID].Secret = SecureSecret("s2")
    /\ call.secret = "s1"

(* -------------------------------- C7 ----------------------------------- *)

\* C7: the capability check decides on the direct capabilities only. A run
\* of checkEntityCapabilityByID(ID, c) on a stored entity returns nil if and
\* only if the entity's own capability list holds GLOBAL_ROOT or the
\* capability of the enumeration named c, and E_ENTITY_UNQUALIFIED
\* otherwise: so for a holder of GLOBAL_ROOT it returns nil for every name,
\* and for an entity with neither it returns E_ENTITY_UNQUALIFIED, with an
\* empty list and with a name outside the enumeration too. For an ID that
\* is not stored it returns E_NO_ENTITY. It leaves the store unchanged.
C7_DirectCapabilities ==
    [][Ran("checkEntityCapabilityByID") =>
          /\ db' = db
          /\ ret'.err = IF ~Stored(db, call.ID) THEN E_NO_ENTITY
                        ELSE IF Qualified(db, call.ID, call.c) THEN nil
                        ELSE E_ENTITY_UNQUALIFIED]_vars

\* an entity that holds capabilities, but not GLOBAL_ROOT, was denied for a
\* name outside the enumeration
C7_Witness ==
    /\ After("checkEntityCapabilityByID")
    /\ ret.err = E_ENTITY_UNQUALIFIED
    /\ call.c \notin CapNames
    /\ Stored(db, call.ID)
    /\ Direct(db[call.ID]) # {}

(* -------------------------------- C8 ----------------------------------- *)

\* C8: identity is checked before authorization. A run of
\* validateEntityCapabilityAndSecret(ID, secret, capability) on a stored
\* entity returns E_ENTITY_BADAUTH whenever the secret does not verify,
\* whether or not the entity holds the capability, and then has made no
\* call after VerifySecret: the capability is not looked at; it returns
\* E_ENTITY_UNQUALIFIED exactly when the secret verifies and the entity
\* holds neither the capability nor GLOBAL_ROOT, and nil exactly when the
\* secret verifies and it holds one of them. For an ID that is not stored
\* it returns E_NO_ENTITY from the first lookup. It leaves the store
\* unchanged.
C8_IdentityFirst ==
    [][Ran("validateEntityCapabilityAndSecret") =>
          /\ db' = db
          /\ ~Stored(db, call.ID) =>
                 ret'.err = E_NO_ENTITY /\ ret'.calls = <<"LoadEntity">>
          /\ Stored(db, call.ID) /\ ~Verifies(db, call.ID, call.secret) =>
                 /\ ret'.err = E_ENTITY_BADAUTH
                 /\ ret'.calls = <<"LoadEntity", "VerifySecret">>
          /\ Verifies(db, call.ID, call.secret) =>
                 /\ ret'.err = IF Qualified(db, call.ID, call.capability) THEN nil
                               ELSE E_ENTITY_UNQUALIFIED
                 /\ ret'.calls = <<"LoadEntity", "VerifySecret", "LoadEntity">>]_vars

\* an entity that holds the capability was refused for its secret
C8_Witness ==
    /\ After("validateEntityCapabilityAndSecret")
    /\ ret.err = E_ENTITY_BADAUTH
    /\ Qualified(db, call.ID, call.capability)
    /\ call.capability \in CapNames
    /\ Capability_GLOBAL_ROOT \notin Direct(db[call.ID])

(* -------------------------------- C9 ----------------------------------- *)

\* in store d, ValidateSecret(ID, q) succeeds for q = p and fails with
\* E_ENTITY_BADAUTH for every other q
OnlyValidates(d, ID, p) ==
    \A q \in Secrets :
        ValidateSecret(Begin(d), ID, q).err = IF q = p THEN nil ELSE E_ENTITY_BADAUTH

\* the run set the secret of ID to p: only p validates afterwards, the
\* record of ID is otherwise as before and so is every other entity
SecretSet(ID, p) ==
    /\ OnlyValidates(db', ID, p)
    /\ OthersSame(db, db', ID)
    /\ Stored(db, ID)
    /\ db' = [db EXCEPT ![ID].Secret = db'[ID].Secret]

\* C9: secret lifecycle. A run of ValidateSecret(ID, q) on a stored entity
\* whose secret is the sealed form of the plaintext p returns nil when
\* q = p and E_ENTITY_BADAUTH when q # p, and changes nothing. After a run
\* of ChangeSecret, or of setEntitySecretByID, that returns nil for the new
\* secret p', ValidateSecret succeeds for p' and fails with
\* E_ENTITY_BADAUTH for every other plaintext, the old one included; no
\* other entity and nothing else of the entity is changed.
C9_SecretLifecycle ==
    [][/\ Ran("ValidateSecret") =>
            /\ db' = db
            /\ \A p \in Secrets :
                   Stored(db, call.ID) /\ db[call.ID].Secret = SecureSecret(p) =>
                       ret'.err = IF call.secret = p THEN nil ELSE E_ENTITY_BADAUTH
       /\ Ran("ChangeSecret") /\ ret'.err = nil =>
            SecretSet(call.changeID, call.changeSecret)
       /\ Ran("setEntitySecretByID") /\ ret'.err = nil =>
            SecretSet(call.ID, call.secret)]_vars

\* an entity changed its own secret, proved by the old one, to another one
C9_Witness ==
    /\ After("ChangeSecret")
    /\ ret.err = nil
    /\ call.ID = call.changeID
    /\ call.secret # call.changeSecret
    /\ Cardinality(DOMAIN db) = 2

(* ============ the tree Manager: operations as hook chains ============== *)

\* log.Fatal: the process ends
Fatal == "fatal"

\* a stage with no hook chain
ErrUnknownHookChain == "ErrUnknownHookChain"

\* tree.ErrUnknownCapability: the name is no key of pb.Capability_value
ErrUnknownCapability == "ErrUnknownCapability"

\* &pb.Entity{}
BlankEntity == [ID |-> "", Number |-> 0, Secret |-> Plain(""), Meta |-> EmptyMeta]

\* EntityProcessor{Entity: &pb.Entity{}, RequestData: rd}, on working state st
EntityProcessor(st, rd) == [st |-> st, Entity |-> BlankEntity, RequestData |-> rd]

\* ep.FetchHooks(stage, m): an error when the stage has no hook chain
FetchHooks(stage, m) == IF stage \in DOMAIN m THEN nil ELSE ErrUnknownHookChain

\* the entity the processor works on: the one the request names, or else
\* the one the processor was built with
Target(ep) == IF ep.RequestData.ID # "" THEN ep.RequestData.ID ELSE ep.Entity.ID

\* one hook unit h on the processor ep: it checks, or applies its part
Hook(h, ep, F) ==
    LET st == ep.st
        e == ep.Entity
        rd == ep.RequestData
    IN  CASE h = "load-entity" ->
                 LET s1 == Called(st, "LoadEntity")
                 IN  IF Stored(s1.db, Target(ep))
                     THEN [ep EXCEPT !.st = s1, !.Entity = s1.db[Target(ep)]]
                     ELSE [ep EXCEPT !.st = Fail(s1, E_NO_ENTITY)]
          [] h = "ensure-no-duplicate-id" ->
                 LET s1 == Called(st, "LoadEntity")
                 IN  [ep EXCEPT !.st = IF Stored(s1.db, rd.ID)
                                       THEN Fail(s1, E_DUPLICATE_ID) ELSE s1]
          [] h = "ensure-no-duplicate-number" ->
                 LET s1 == Called(st, "LoadEntityNumber")
                 IN  [ep EXCEPT !.st = IF NumberUsed(s1.db, rd.Number)
                                       THEN Fail(s1, E_DUPLICATE_UIDNUMBER) ELSE s1]
          [] h = "set-entity-id" -> [ep EXCEPT !.Entity.ID = rd.ID]
          [] h = "set-entity-number" ->
                 [ep EXCEPT !.Entity.Number =
                      IF rd.Number = -1 THEN nextUIDNumber(st.db) ELSE rd.Number]
          [] h = "set-entity-secret" ->
                 LET k == st.n + 1
                 IN  IF k \in F
                     THEN [ep EXCEPT !.st = Fail([Called(st, "SecureSecret failed")
                                                     EXCEPT !.n = k], ErrCrypto)]
                     ELSE [ep EXCEPT !.st = [Called(st, "SecureSecret") EXCEPT !.n = k],
                                     !.Entity.Secret = SecureSecret(rd.Secret)]
          [] h = "save-entity" -> [ep EXCEPT !.st = SaveEntity(st, F, e)]
          [] h = "validate-entity-unlocked" ->
                 [ep EXCEPT !.st = IF e.Meta.Locked THEN Fail(st, E_ENTITY_BADAUTH) ELSE st]
          [] h = "validate-entity-secret" ->
                 LET s1 == Called(st, "VerifySecret")
                 IN  [ep EXCEPT !.st = IF VerifySecret(rd.Secret, e.Secret)
                                       THEN s1 ELSE Fail(s1, E_ENTITY_BADAUTH)]
          [] h = "set-entity-locked" -> [ep EXCEPT !.Entity.Meta.Locked = TRUE]
          [] h = "set-entity-unlocked" -> [ep EXCEPT !.Entity.Meta.Locked = FALSE]
          [] h = "destroy-entity" -> [ep EXCEPT !.st = DeleteEntity_db(st, rd.ID)]
          [] h = "set-entity-capability" ->
                 IF Holds(e.Meta.Capabilities, rd.Meta.Capabilities[1])
                 THEN ep
                 ELSE [ep EXCEPT !.Entity.Meta.Capabilities =
                                     Append(@, rd.Meta.Capabilities[1])]
          [] h = "remove-entity-capability" ->
                 [ep EXCEPT !.Entity.Meta.Capabilities =
                      SelectSeq(@, LAMBDA a : a # rd.Meta.Capabilities[1])]
          [] h = "merge-entity-meta" ->
                 [ep EXCEPT !.Entity.Meta = MergeMeta(@, rd.Meta)]
          [] h = "load-or-create-entity" ->
                 LET s1 == Called(st, "LoadEntity")
                     k == s1.n + 1
                 IN  IF Stored(s1.db, rd.ID)
                     THEN [ep EXCEPT !.st = s1, !.Entity = s1.db[rd.ID]]
                     ELSE IF k \in F
                          THEN [ep EXCEPT !.st = Fail([Called(s1, "SecureSecret failed")
                                                          EXCEPT !.n = k], ErrCrypto)]
                          ELSE [ep EXCEPT !.st = [Called(s1, "SecureSecret") EXCEPT !.n = k],
                                          !.Entity = [ID |-> rd.ID,
                                                      Number |-> nextUIDNumber(s1.db),
                                                      Secret |-> SecureSecret(rd.Secret),
                                                      Meta |-> EmptyMeta]]

\* the hooks of the chain in order; the first that fails ends the run
RECURSIVE RunChain(_, _, _)
RunChain(chain, ep, F) ==
    IF chain = <<>> \/ ep.st.err # nil
    THEN ep
    ELSE RunChain(Tail(chain), Hook(Head(chain), ep, F), F)

\* ep.Run() for the stage: the working state it ends in
Run(stage, m, ep, F) == RunChain(m[stage], ep, F).st

\* a request with the fields the operation does not set left blank
RequestData(ID, number, secret) == [ID |-> ID, Number |-> number, Secret |-> secret]

\* a Manager operation that ends the process when the stage cannot be resolved
RunOrFatal(stage, m, st, F, rd) ==
    IF FetchHooks(stage, m) # nil
    THEN Fail(st, Fatal)
    ELSE Run(stage, m, EntityProcessor(st, rd), F)

\* Manager.NewEntity(ID, number, secret)
Manager_NewEntity(st, m, F, ID, number, secret) ==
    IF FetchHooks("CREATE", m) # nil
    THEN Fail(st, FetchHooks("CREATE", m))
    ELSE Run("CREATE", m, EntityProcessor(st, RequestData(ID, number, secret)), F)

\* Manager.DeleteEntityByID(ID)
Manager_DeleteEntityByID(st, m, ID) ==
    RunOrFatal("DESTROY", m, st, {}, RequestData(ID, 0, ""))

\* EntityProcessor{Entity: &pb.Entity{ID: &ID}, RequestData: &pb.Entity{Meta:
\* &pb.EntityMeta{Capabilities: []pb.Capability{pb.Capability(capIndex)}}}}
CapabilityProcessor(st, ID, capIndex) ==
    [st |-> st,
     Entity |-> [BlankEntity EXCEPT !.ID = ID],
     RequestData |-> [ID |-> "", Number |-> 0, Secret |-> "",
                      Meta |-> [EmptyMeta EXCEPT !.Capabilities = <<capIndex>>]]]

\* the capability operation of the Manager on the stage: the name is looked
\* up in pb.Capability_value before any hook chain is fetched
CapabilityByID(stage, st, m, F, ID, c) ==
    IF c \notin DOMAIN Capability_value
    THEN Fail(st, ErrUnknownCapability)
    ELSE IF FetchHooks(stage, m) # nil
         THEN Fail(st, Fatal)
         ELSE Run(stage, m, CapabilityProcessor(st, ID, Capability_value[c]), F)

\* Manager.SetEntityCapabilityByID(ID, c)
Manager_SetEntityCapabilityByID(st, m, F, ID, c) ==
    CapabilityByID("SET-CAPABILITY", st, m, F, ID, c)

\* Manager.RemoveEntityCapabilityByID(ID, c)
Manager_RemoveEntityCapabilityByID(st, m, F, ID, c) ==
    CapabilityByID("DROP-CAPABILITY", st, m, F, ID, c)

\* Manager.SetEntitySecretByID(ID, secret)
Manager_SetEntitySecretByID(st, m, F, ID, secret) ==
    RunOrFatal("SET-SECRET", m, st, F, RequestData(ID, 0, secret))

\* Manager.ValidateSecret without the hook for the lock: entity.go's
Manager_ValidateSecret_NoLock(st, m, ID, secret) == ValidateSecret(st, ID, secret)

\* Manager.ValidateSecret(ID, secret)
Manager_ValidateSecret(st, m, ID, secret) ==
    RunOrFatal("VALIDATE-IDENTITY", m, st, {}, RequestData(ID, 0, secret))

\* Manager.GetEntity(ID): the working state and the entity returned; e is
\* the record the FETCH chain ends with, the stored one
Manager_GetEntity(st, m, ID) ==
    IF FetchHooks("FETCH", m) # nil
    THEN [st |-> Fail(st, Fatal), val |-> NilEntity]
    ELSE LET ep == RunChain(m["FETCH"], EntityProcessor(st, RequestData(ID, 0, "")), {})
         IN  IF ep.st.err # nil
             THEN [st |-> ep.st, val |-> NilEntity]
             ELSE LET c == safeCopyEntity(ep.Entity)
                  IN  [st |-> [ep.st EXCEPT !.db[ID] = c.e], val |-> c.dup]

\* Manager.LockEntity(ID)
LockEntity(st, m, F, ID) == RunOrFatal("LOCK", m, st, F, RequestData(ID, 0, ""))

\* Manager.UnlockEntity(ID)
UnlockEntity(st, m, F, ID) == RunOrFatal("UNLOCK", m, st, F, RequestData(ID, 0, ""))

\* change of one's own secret, gated on one's identity: verify, then set
ChangeOwnSecret(st, m, F, ID, secret, changeSecret) ==
    LET s1 == Manager_ValidateSecret(st, m, ID, secret)
    IN  IF s1.err # nil THEN s1 ELSE Manager_SetEntitySecretByID(s1, m, F, ID, changeSecret)

\* Manager.UpdateEntityMeta(ID, newMeta)
Manager_UpdateEntityMeta(st, m, F, ID, newMeta) ==
    IF FetchHooks("MERGE-METADATA", m) # nil
    THEN Fail(st, Fatal)
    ELSE Run("MERGE-METADATA", m,
             EntityProcessor(st, [ID |-> ID, Number |-> 0, Secret |-> "", Meta |-> newMeta]),
             F)

\* Manager.MakeBootstrap(ID, secret): the working state and the flag. The
\* flag is set after the chain has run and before its error ends the
\* process.
Manager_MakeBootstrap(st, done, m, F, ID, secret) ==
    IF done
    THEN [st |-> st, done |-> done]
    ELSE IF FetchHooks("BOOTSTRAP-SERVER", m) # nil
         THEN [st |-> Fail(st, Fatal), done |-> done]
         ELSE LET rd == [ID |-> ID, Number |-> 0, Secret |-> secret,
                         Meta |-> [EmptyMeta EXCEPT
                                      !.Capabilities = <<Capability_GLOBAL_ROOT>>]]
                  s1 == Run("BOOTSTRAP-SERVER", m, EntityProcessor(st, rd), F)
              IN  [st |-> IF s1.err # nil THEN Fail(s1, Fatal) ELSE s1, done |-> TRUE]

\* the calls of the operations of the tree Manager, with their arguments
TreeCalls ==
    {[op |-> "Manager.NewEntity", ID |-> i, number |-> n, secret |-> x] :
        i \in IDs, n \in Numbers, x \in Secrets}
    \cup {[op |-> "Manager.DeleteEntityByID", ID |-> i] : i \in IDs}
    \cup {[op |-> "Manager.SetEntitySecretByID", ID |-> i, secret |-> x] :
        i \in IDs, x \in Secrets}
    \cup {[op |-> "Manager.ValidateSecret", ID |-> i, secret |-> x] : i \in IDs, x \in Secrets}
    \cup {[op |-> "Manager.SetEntityCapabilityByID", ID |-> i, c |-> c] :
        i \in IDs, c \in CapInputs}
    \cup {[op |-> "Manager.RemoveEntityCapabilityByID", ID |-> i, c |-> c] :
        i \in IDs, c \in CapInputs}
    \cup {[op |-> "Manager.GetEntity", ID |-> i] : i \in IDs}
    \cup {[op |-> "Manager.LockEntity", ID |-> i] : i \in IDs}
    \cup {[op |-> "Manager.UnlockEntity", ID |-> i] : i \in IDs}
    \cup {[op |-> "ChangeOwnSecret", ID |-> i, secret |-> x, changeSecret |-> y] :
        i \in IDs, x \in Secrets, y \in Secrets}

\* a caller calls an operation of the Manager
TreeCall ==
    /\ call = NoCall
    /\ \E c \in TreeCalls :
        /\ c.op = "Manager.SetEntityCapabilityByID" =>
               WithinCaps(c) \/ c.c \notin DOMAIN Capability_value
        /\ call' = c
    /\ UNCHANGED <<db, bootstrap_done, ret, tokenVars, proc, registry>>

\* the caller takes the result; after log.Fatal there is no caller any more
TreeReturn ==
    /\ ret.done
    /\ ret.err # Fatal
    /\ call' = NoCall
    /\ ret' = NoRet
    /\ UNCHANGED <<db, bootstrap_done, tokenVars, proc, registry>>

Manager_NewEntityStep ==
    /\ Serving("Manager.NewEntity")
    /\ \E F \in FailSets :
        Done(Manager_NewEntity(Begin(db), registry, F, call.ID, call.number, call.secret))
    /\ UNCHANGED bootstrap_done

Manager_DeleteEntityByIDStep ==
    /\ Serving("Manager.DeleteEntityByID")
    /\ Done(Manager_DeleteEntityByID(Begin(db), registry, call.ID))
    /\ UNCHANGED bootstrap_done

Manager_SetEntitySecretByIDStep ==
    /\ Serving("Manager.SetEntitySecretByID")
    /\ \E F \in FailSets :
        Done(Manager_SetEntitySecretByID(Begin(db), registry, F, call.ID, call.secret))
    /\ UNCHANGED bootstrap_done

Manager_SetEntityCapabilityByIDStep ==
    /\ Serving("Manager.SetEntityCapabilityByID")
    /\ \E F \in FailSets :
        Done(Manager_SetEntityCapabilityByID(Begin(db), registry, F, call.ID, call.c))
    /\ UNCHANGED bootstrap_done

Manager_RemoveEntityCapabilityByIDStep ==
    /\ Serving("Manager.RemoveEntityCapabilityByID")
    /\ \E F \in FailSets :
        Done(Manager_RemoveEntityCapabilityByID(Begin(db), registry, F, call.ID,
                                                call.c))
    /\ UNCHANGED bootstrap_done

Manager_ValidateSecretStep ==
    /\ Serving("Manager.ValidateSecret")
    /\ Done(Manager_ValidateSecret(Begin(db), registry, call.ID, call.secret))
    /\ UNCHANGED bootstrap_done

Manager_GetEntityStep ==
    /\ Serving("Manager.GetEntity")
    /\ LET r == Manager_GetEntity(Begin(db), registry, call.ID)
       IN  DoneWith(r.st, r.val)
    /\ UNCHANGED bootstrap_done

LockEntityStep ==
    /\ Serving("Manager.LockEntity")
    /\ \E F \in FailSets : Done(LockEntity(Begin(db), registry, F, call.ID))
    /\ UNCHANGED bootstrap_done

UnlockEntityStep ==
    /\ Serving("Manager.UnlockEntity")
    /\ \E F \in FailSets : Done(UnlockEntity(Begin(db), registry, F, call.ID))
    /\ UNCHANGED bootstrap_done

ChangeOwnSecretStep ==
    /\ Serving("ChangeOwnSecret")
    /\ \E F \in FailSets :
        Done(ChangeOwnSecret(Begin(db), registry, F, call.ID, call.secret,
                             call.changeSecret))
    /\ UNCHANGED bootstrap_done

Manager_UpdateEntityMetaStep ==
    /\ Serving("Manager.UpdateEntityMeta")
    /\ \E F \in FailSets :
        Done(Manager_UpdateEntityMeta(Begin(db), registry, F, call.ID, call.newMeta))
    /\ UNCHANGED bootstrap_done

Manager_MakeBootstrapStep ==
    /\ Serving("Manager.MakeBootstrap")
    /\ \E F \in FailSets :
        LET r == Manager_MakeBootstrap(Begin(db), bootstrap_done, registry, F, call.ID,
                                       call.secret)
        IN  /\ Done(r.st)
            /\ bootstrap_done' = r.done

NextTree ==
    \/ TreeCall
    \/ Manager_NewEntityStep
    \/ Manager_DeleteEntityByIDStep
    \/ Manager_SetEntitySecretByIDStep
    \/ Manager_SetEntityCapabilityByIDStep
    \/ Manager_RemoveEntityCapabilityByIDStep
    \/ Manager_ValidateSecretStep
    \/ Manager_GetEntityStep
    \/ LockEntityStep
    \/ UnlockEntityStep
    \/ ChangeOwnSecretStep
    \/ TreeReturn

SpecTree == Init /\ [][NextTree]_vars

(* ------------- the tree Manager with a stage left unregistered --------- *)

\* the registries the Manager may have been started with: every stage
\* registered, or all but one
Registries ==
    {entityProcesses}
    \cup {[s \in DOMAIN entityProcesses \ {missing} |-> entityProcesses[s]] :
              missing \in DOMAIN entityProcesses}

\* the calls of the operations of the Manager that resolve a stage
StageCalls ==
    {[op |-> "Manager.NewEntity", ID |-> i, number |-> n, secret |-> "s1"] :
        i \in IDs, n \in {-1, 2}}
    \cup {[op |-> "Manager.MakeBootstrap", ID |-> i, secret |-> "s1"] : i \in IDs}
    \cup {[op |-> "Manager.DeleteEntityByID", ID |-> i] : i \in IDs}
    \cup {[op |-> "Manager.SetEntityCapabilityByID", ID |-> i, c |-> "CREATE_ENTITY"] :
        i \in IDs}
    \cup {[op |-> "Manager.RemoveEntityCapabilityByID", ID |-> i, c |-> "CREATE_ENTITY"] :
        i \in IDs}
    \cup {[op |-> "Manager.SetEntitySecretByID", ID |-> i, secret |-> "s2"] : i \in IDs}
    \cup {[op |-> "Manager.ValidateSecret", ID |-> i, secret |-> "s1"] : i \in IDs}
    \cup {[op |-> "Manager.GetEntity", ID |-> i] : i \in IDs}
    \cup {[op |-> "Manager.UpdateEntityMeta", ID |-> i, newMeta |-> m] :
        i \in IDs, m \in Patches}
    \cup {[op |-> "Manager.LockEntity", ID |-> i] : i \in IDs}
    \cup {[op |-> "Manager.UnlockEntity", ID |-> i] : i \in IDs}

\* a caller calls an operation of the Manager
StageCall ==
    /\ call = NoCall
    /\ \E c \in StageCalls :
        /\ c.op = "Manager.SetEntityCapabilityByID" => WithinCaps(c)
        /\ call' = c
    /\ UNCHANGED <<db, bootstrap_done, ret, tokenVars, proc, registry>>

InitStages == \E m \in Registries : Started(m)

NextStages ==
    \/ StageCall
    \/ Manager_NewEntityStep
    \/ Manager_MakeBootstrapStep
    \/ Manager_DeleteEntityByIDStep
    \/ Manager_SetEntityCapabilityByIDStep
    \/ Manager_RemoveEntityCapabilityByIDStep
    \/ Manager_SetEntitySecretByIDStep
    \/ Manager_ValidateSecretStep
    \/ Manager_GetEntityStep
    \/ Manager_UpdateEntityMetaStep
    \/ LockEntityStep
    \/ UnlockEntityStep
    \/ TreeReturn

SpecStages == InitStages /\ [][NextStages]_vars

(* -------------------------------- C10 ---------------------------------- *)

\* the entity ID is stored in d and locked
Locked(d, ID) == Stored(d, ID) /\ d[ID].Meta.Locked

\* this step is a run of UnlockEntity(ID) that returns no error
Unlocks(ID) == Ran("Manager.UnlockEntity") /\ call.ID = ID /\ ret'.err = nil

C11_MergeIsolation ==
    [][Ran("UpdateEntityMeta") =>
          /\ DOMAIN db' = DOMAIN db
          /\ \A x \in DOMAIN db :
                 /\ db'[x].Meta.Capabilities = db[x].Meta.Capabilities
                 /\ db'[x].Meta.Groups = db[x].Meta.Groups
          /\ ret'.err = nil =>
                 /\ Stored(db, call.modEntityID)
                 /\ db' = [db EXCEPT ![call.modEntityID].Meta.DisplayName =
                              IF call.newMeta.DisplayName # ""
                              THEN call.newMeta.DisplayName ELSE @]]_vars

\* a patch that carries GLOBAL_ROOT and a group, and no name, was merged
\* into an entity that has a name and holds no capability
C11_Witness ==
    /\ After("UpdateEntityMeta")
    /\ ret.err = nil
    /\ call.newMeta.Capabilities = <<Capability_GLOBAL_ROOT>>
    /\ call.newMeta.Groups # <<>>
    /\ call.newMeta.DisplayName = ""
    /\ db[call.modEntityID].Meta.DisplayName # ""
    /\ Direct(db[call.modEntityID]) = {}

(* -------------------------------- C12 ---------------------------------- *)

\* no entry of the sequence occurs twice
NoDuplicates(seq) == \A i, j \in 1..Len(seq) : seq[i] = seq[j] => i = j

\* how often a occurs in the sequence
Occurrences(seq, a) == Cardinality({i \in 1..Len(seq) : seq[i] = a})

\* C12: setting a capability is idempotent and keeps the capabilities free
\* of duplicates. After every step, bootstrap promotion included, no stored
\* entity's capability list holds the same capability twice. A run of
\* setEntityCapabilityByID(ID, c), c a name of the enumeration, on a stored
\* entity that holds c returns nil, leaves the store as it was and makes no
\* call but the lookup: it does not write. When the run returns nil, the
\* entity holds c exactly once, every other entity is as before, and
\* setting c once more changes nothing.
C12_SetCapabilityIdempotent ==
    [][/\ \A x \in DOMAIN db' : NoDuplicates(db'[x].Meta.Capabilities)
       /\ Ran("setEntityCapabilityByID") /\ call.c \in CapNames /\ Stored(db, call.ID) =>
            /\ Capability_value[call.c] \in Direct(db[call.ID]) =>
                   /\ ret'.err = nil
                   /\ db' = db
                   /\ ret'.calls = <<"LoadEntity">>
            /\ ret'.err = nil =>
                   /\ Occurrences(db'[call.ID].Meta.Capabilities,
                                  Capability_value[call.c]) = 1
                   /\ OthersSame(db, db', call.ID)
                   /\ setEntityCapabilityByID(Begin(db'), {}, call.ID, call.c).db = db']_vars

\* a capability other than GLOBAL_ROOT was set on an entity that holds it
C12_Witness ==
    /\ After("setEntityCapabilityByID")
    /\ ret.err = nil
    /\ ret.calls = <<"LoadEntity">>
    /\ call.c \in CapNames \ {"GLOBAL_ROOT"}
    /\ Stored(db, call.ID)
    /\ Capability_value[call.c] \in Direct(db[call.ID])

(* -------------------------------- C13 ---------------------------------- *)

\* C13: setting a capability with an empty name is a no-op and no error. A
\* run of Manager.SetEntityCapabilityByID(ID, "") returns nil and leaves the
\* store as it was.
C13_EmptyNameIsNoOp ==
    [][Ran("Manager.SetEntityCapabilityByID") /\ call.c = "" =>
          /\ ret'.err = nil
          /\ db' = db]_vars

\* C13 on entity.go: a run of setEntityCapabilityByID(ID, "") on a stored
\* entity returns nil, leaves the store as it was and does not write
C13_EmptyNameIsNoOp_EMDataStore ==
    [][Ran("setEntityCapabilityByID") /\ call.c = "" /\ Stored(db, call.ID) =>
          /\ ret'.err = nil
          /\ db' = db
          /\ ret'.calls = <<"LoadEntity">>]_vars

(* -------------------------------- C14 ---------------------------------- *)

\* C14: an undefined capability name is an error of its own and grants
\* nothing. A run of setEntityCapabilityByID(ID, c) with a name c that is
\* neither empty nor in the enumeration returns ErrUnknownCapability, calls
\* nothing and leaves the store, so every capability list, as it was.
C14_UnknownCapabilityRejected ==
    [][Ran("setEntityCapabilityByID") /\ call.c \notin CapNames \cup {""} =>
          /\ ret'.err = ErrUnknownCapability
          /\ ret'.calls = <<>>
          /\ db' = db]_vars

\* C14 on the tree Manager: a run of Manager.SetEntityCapabilityByID or
\* Manager.RemoveEntityCapabilityByID with a name that is no key of
\* pb.Capability_value returns ErrUnknownCapability, fetches and runs no
\* hook chain and leaves the store as it was
C14_ManagerRejectsUnknown ==
    [][/\ Ran("Manager.SetEntityCapabilityByID") \/ Ran("Manager.RemoveEntityCapabilityByID")
       /\ call.c \notin DOMAIN Capability_value
       => /\ ret'.err = ErrUnknownCapability
          /\ ret'.calls = <<>>
          /\ db' = db]_vars

(* -------------------------------- C15 ---------------------------------- *)

\* the stored forms of a secret: sealed, or as given
SecretForms == {SecureSecret(s) : s \in Secrets \cup {""}} \cup {Plain(s) : s \in Secrets \cup {""}}

\* the number the entity created by Manager.NewEntity(ID, number, secret) on
\* store d has
NumberCreated(d, number) == IF number = -1 THEN SmallestFree(d) ELSE number

\* C15: create, then fetch, with redaction. A run of Manager.GetEntity(ID)
\* leaves the store as it was, so the stored secret is after the run what
\* it was before. When it returns nil, the entity returned has the ID asked
\* for and the number and the metadata of the stored record, its secret is
\* the sentinel and no stored form of a secret; otherwise no entity is
\* returned. After a run of Manager.NewEntity(ID, number, secret) that
\* returns nil, Manager.GetEntity(ID) returns nil and an entity with that
\* ID, the number given (the smallest free one for -1) and the sentinel.
C15_CreateFetchRedacted ==
    [][/\ Ran("Manager.GetEntity") =>
            /\ db' = db
            /\ IF ret'.err = nil
               THEN /\ Stored(db, call.ID)
                    /\ ret'.val.ID = call.ID
                    /\ ret'.val.Number = db[call.ID].Number
                    /\ ret'.val.Meta = db[call.ID].Meta
                    /\ ret'.val.Secret = Redacted
                    /\ ret'.val.Secret \notin SecretForms
                    /\ ret'.val.Secret # db[call.ID].Secret
               ELSE ret'.val = NilEntity
       /\ Ran("Manager.NewEntity") /\ ret'.err = nil =>
            LET r == Manager_GetEntity(Begin(db'), entityProcesses, call.ID)
            IN  /\ r.st.err = nil
                /\ r.st.db = db'
                /\ r.val.ID = call.ID
                /\ r.val.Number = NumberCreated(db, call.number)
                /\ r.val.Secret = Redacted
                /\ db'[call.ID].Secret = SecureSecret(call.secret)]_vars

\* an entity with a sealed secret was fetched, and the copy is redacted
C15_Witness ==
    /\ After("Manager.GetEntity")
    /\ ret.err = nil
    /\ ret.val.Secret = Redacted
    /\ Stored(db, call.ID)
    /\ db[call.ID].Secret \in {SecureSecret(s) : s \in Secrets}
    /\ db[call.ID].Number = 2

(* -------------------------------- C16 ---------------------------------- *)

\* the entity the called delete operation names
Deleted == IF call.op = "DeleteEntity" THEN call.deleteID ELSE call.ID

\* on store d the entity ID cannot be authenticated and cannot be fetched
Gone(d, ID) ==
    /\ \A s \in Secrets : ValidateSecret(Begin(d), ID, s).err = E_NO_ENTITY
    /\ GetEntity(Begin(d), ID).st.err = E_NO_ENTITY
    /\ GetEntity(Begin(d), ID).val = NilEntity

\* this step is a run of an operation that creates the entity ID
Creates(ID) ==
    \/ Ran("newEntity") /\ call.ID = ID
    \/ Ran("NewEntity") /\ call.newID = ID
    \/ Ran("MakeBootstrap") /\ call.ID = ID

\* C16: delete makes the entity unauthenticatable. A run of deleteEntityByID
\* or DeleteEntity that returns nil was for a stored entity, removes it and
\* nothing else, and on the store it leaves ValidateSecret fails with
\* E_NO_ENTITY for every secret, the stored one included, and GetEntity
\* returns E_NO_ENTITY and no entity. An ID that is not stored becomes
\* stored only by a run of a creating operation for that ID, and until then
\* every run of ValidateSecret and GetEntity for it returns E_NO_ENTITY. A
\* run of deleteEntityByID for an ID that is not stored, and one of
\* DeleteEntity by a requester who may delete, returns E_NO_ENTITY and
\* leaves the store as it was.
C16_DeleteUnauthenticatable ==
    [][/\ (Ran("deleteEntityByID") \/ Ran("DeleteEntity")) /\ ret'.err = nil =>
            /\ Stored(db, Deleted)
            /\ DOMAIN db' = DOMAIN db \ {Deleted}
            /\ \A x \in DOMAIN db' : db'[x] = db[x]
            /\ Gone(db', Deleted)
       /\ \A x \in IDs : ~Stored(db, x) =>
            /\ Stored(db', x) => Creates(x)
            /\ Gone(db, x)
            /\ (Ran("ValidateSecret") \/ Ran("GetEntity")) /\ call.ID = x =>
                   ret'.err = E_NO_ENTITY /\ ret'.val = NilEntity /\ db' = db
       /\ (Ran("deleteEntityByID") \/ Ran("DeleteEntity")) /\ ~Stored(db, Deleted) =>
            /\ db' = db
            /\ ret'.err # nil
            /\ \/ ret'.err = E_NO_ENTITY
               \/ /\ call.op = "DeleteEntity"
                  /\ ~MayAct(call.requestID, call.requestSecret, call.deleteID,
                             "DELETE_ENTITY", TRUE)]_vars

\* an entity was deleted and another one is left
C16_Witness ==
    /\ After("deleteEntityByID") \/ After("DeleteEntity")
    /\ ret.err = nil
    /\ ~Stored(db, Deleted)
    /\ DOMAIN db # {}

\* C16 on the tree Manager: a run of Manager.DeleteEntityByID that returns
\* nil removes the stored entity named and nothing else, and on the store
\* it leaves Manager.ValidateSecret fails with E_NO_ENTITY for every secret
\* and Manager.GetEntity returns E_NO_ENTITY and no entity; for an ID that
\* is not stored the run returns E_NO_ENTITY and leaves the store as it was
C16_ManagerDelete ==
    [][Ran("Manager.DeleteEntityByID") =>
          IF Stored(db, call.ID)
          THEN /\ ret'.err = nil
               /\ DOMAIN db' = DOMAIN db \ {call.ID}
               /\ \A x \in DOMAIN db' : db'[x] = db[x]
               /\ \A s \in Secrets :
                      Manager_ValidateSecret(Begin(db'), entityProcesses, call.ID, s).err
                          = E_NO_ENTITY
               /\ Manager_GetEntity(Begin(db'), entityProcesses, call.ID).st.err = E_NO_ENTITY
               /\ Manager_GetEntity(Begin(db'), entityProcesses, call.ID).val = NilEntity
          ELSE ret'.err = E_NO_ENTITY /\ db' = db]_vars

(* ================= package token: the registry of services ============= *)

\* Register is called while fewer than MaxRegs calls of it were made
MaxRegs == 2
\* RegisterCallback is called while fewer than MaxCallbacks are registered
MaxCallbacks == 2
\* the clock advances up to MaxClock
MaxClock == 2

\* the names of token services, the factories and the callbacks in use
Backends == {"x", "y"}
Factories == {"f", "g"}
Callbacks == {"a", "b"}
\* the arguments of SetLifetime, in minutes
Lifetimes == {-1, 0, 1, 10}

\* time.Minute * 5, in minutes
FiveMinutes == 5

ErrUnknownTokenService == "ErrUnknownTokenService"

\* a nil Service
NilService == [nil |-> TRUE]

\* log(): the logger, after a null logger was set where there was none
log(tk) == IF tk.lb = "nil" THEN [tk EXCEPT !.lb = "null"] ELSE tk

\* the factory impl called with logger l: the service it returns and its error
Factory(impl, l) == [val |-> [factory |-> impl, logger |-> l], err |-> nil]

\* New(backend): the state of the package, the result and the factories called
New(tk, backend) ==
    IF backend \notin DOMAIN tk.services
    THEN [tk |-> tk, val |-> NilService, err |-> ErrUnknownTokenService, calls |-> <<>>]
    ELSE LET t == tk.services[backend]
             tk1 == log(tk)
             r == Factory(t, tk1.lb)
         IN  [tk |-> tk1, val |-> r.val, err |-> r.err, calls |-> <<t>>]

\* Register that binds the name whether or not it is bound
Register_LastWins(tk, name, impl) ==
    [tk EXCEPT !.services = [n \in DOMAIN @ \cup {name} |-> IF n = name THEN impl ELSE @[n]]]

\* Register(name, impl)
Register(tk, name, impl) ==
    IF name \in DOMAIN tk.services
    THEN tk
    ELSE [tk EXCEPT !.services =
              [n \in DOMAIN @ \cup {name} |-> IF n = name THEN impl ELSE @[n]]]

\* RegisterCallback that puts the callback first
RegisterCallback_Prepends(tk, cb) == [tk EXCEPT !.callbacks = <<cb>> \o @]

\* RegisterCallback(cb)
RegisterCallback(tk, cb) == [tk EXCEPT !.callbacks = Append(@, cb)]

\* the range loop of DoCallbacks over cbs: the callbacks called, after ran
RECURSIVE RangeCallbacks(_, _)
RangeCallbacks(cbs, ran) ==
    IF cbs = <<>> THEN ran ELSE RangeCallbacks(Tail(cbs), Append(ran, Head(cbs)))

\* DoCallbacks(): the callbacks called, in order. What a callback does is
\* outside the package.
DoCallbacks(tk) == RangeCallbacks(tk.callbacks, <<>>)

\* GetConfig that returns the lifetime as it is
GetConfig_NoDefault(tk, t1, t2) ==
    [tk |-> tk,
     val |-> [Lifetime |-> tk.lifetime, Issuer |-> "", IssuedAt |-> t1, NotBefore |-> t2]]

\* GetConfig(): t1 and t2 are what the two calls of time.Now() return
GetConfig(tk, t1, t2) ==
    LET tk1 == IF tk.lifetime = 0 THEN [tk EXCEPT !.lifetime = FiveMinutes] ELSE tk
    IN  [tk |-> tk1,
         val |-> [Lifetime |-> tk1.lifetime, Issuer |-> "", IssuedAt |-> t1,
                  NotBefore |-> t2]]

\* SetParentLogger(l): l.Named("token")
SetParentLogger(tk) == [tk EXCEPT !.lb = "token"]

\* SetLifetime(t)
SetLifetime(tk, t) == [tk EXCEPT !.lifetime = t]

\* the calls of the package, with their arguments
TokenCalls ==
    {[op |-> "token.New", backend |-> n] : n \in Backends}
    \cup {[op |-> "token.Register", name |-> n, impl |-> f] : n \in Backends, f \in Factories}
    \cup {[op |-> "token.RegisterCallback", cb |-> c] : c \in Callbacks}
    \cup {[op |-> "token.DoCallbacks"], [op |-> "token.GetConfig"],
          [op |-> "token.SetParentLogger"]}
    \cup {[op |-> "token.SetLifetime", t |-> t] : t \in Lifetimes}

\* a caller calls an operation of the package
TokenCall ==
    /\ call = NoCall
    /\ \E c \in TokenCalls :
        /\ c.op = "token.Register" => Len(history.registered) < MaxRegs
        /\ c.op = "token.RegisterCallback" => Len(token.callbacks) < MaxCallbacks
        /\ call' = c
    /\ UNCHANGED <<db, bootstrap_done, ret, tokenVars, proc, registry>>

\* time passes
Tick ==
    /\ clock < MaxClock
    /\ clock' = clock + 1
    /\ UNCHANGED <<db, bootstrap_done, call, ret, token, history, proc, registry>>

\* the operation of the package ends with the result r
TokenDone(r) ==
    /\ ret' = [done |-> TRUE, err |-> r.err, calls |-> r.calls, val |-> r.val]
    /\ UNCHANGED <<db, bootstrap_done, call, proc, registry>>

\* the result of an operation that returns nothing
Nothing == [err |-> nil, calls |-> <<>>, val |-> NilService]

NewStep ==
    /\ Serving("token.New")
    /\ LET r == New(token, call.backend)
       IN  token' = r.tk /\ TokenDone(r)
    /\ UNCHANGED <<clock, history>>

RegisterStep ==
    /\ Serving("token.Register")
    /\ token' = Register(token, call.name, call.impl)
    /\ history' = [history EXCEPT !.registered = Append(@, <<call.name, call.impl>>)]
    /\ TokenDone(Nothing)
    /\ UNCHANGED clock

RegisterCallbackStep ==
    /\ Serving("token.RegisterCallback")
    /\ token' = RegisterCallback(token, call.cb)
    /\ TokenDone(Nothing)
    /\ UNCHANGED <<clock, history>>

DoCallbacksStep ==
    /\ Serving("token.DoCallbacks")
    /\ TokenDone([Nothing EXCEPT !.calls = DoCallbacks(token)])
    /\ UNCHANGED <<token, clock, history>>

\* the clock may advance between the two calls of time.Now()
GetConfigStep ==
    /\ Serving("token.GetConfig")
    /\ \E t2 \in clock..MaxClock :
        LET r == GetConfig(token, clock, t2)
        IN  /\ t2 <= clock + 1
            /\ token' = r.tk
            /\ clock' = t2
            /\ history' = [history EXCEPT !.issued = <<r.val.IssuedAt>>]
            /\ TokenDone([Nothing EXCEPT !.val = r.val])

SetParentLoggerStep ==
    /\ Serving("token.SetParentLogger")
    /\ token' = SetParentLogger(token)
    /\ TokenDone(Nothing)
    /\ UNCHANGED <<clock, history>>

SetLifetimeStep ==
    /\ Serving("token.SetLifetime")
    /\ token' = SetLifetime(token, call.t)
    /\ TokenDone(Nothing)
    /\ UNCHANGED <<clock, history>>

NextToken ==
    \/ TokenCall
    \/ Tick
    \/ NewStep
    \/ RegisterStep
    \/ RegisterCallbackStep
    \/ DoCallbacksStep
    \/ GetConfigStep
    \/ SetParentLoggerStep
    \/ SetLifetimeStep
    \/ Return

SpecToken == Init /\ [][NextToken]_vars

(* -------------------------------- C17 ---------------------------------- *)

\* the names the Register calls in the log regs were made for
NamesRegistered(regs) == {regs[i][1] : i \in 1..Len(regs)}

\* the factory passed to the first Register call of the log regs for the name
FirstFactory(regs, name) ==
    LET i == CHOOSE k \in 1..Len(regs) :
                 /\ regs[k][1] = name
                 /\ \A j \in 1..(k - 1) : regs[j][1] # name
    IN  regs[i][2]

\* the registry tk binds the names registered in the log h, each to the
\* factory of its first registration
FirstWins(tk, h) ==
    /\ DOMAIN tk.services = NamesRegistered(h.registered)
    /\ \A n \in DOMAIN tk.services : tk.services[n] = FirstFactory(h.registered, n)

\* C17: registration of token services is first-wins. Before and after
\* every step the registry binds exactly the names Register was called for,
\* each to the factory of the first call for it. A run of Register for a
\* name that is bound changes nothing of the package. A run of New(backend)
\* for a bound name calls the factory of the first registration, that one
\* only, and returns its service, leaving the registry as it was; for a
\* name never registered it returns ErrUnknownTokenService and no service
\* and calls no factory.
C17_FirstRegistrationWins ==
    [][/\ FirstWins(token, history)
       /\ FirstWins(token', history')
       /\ Ran("token.Register") /\ call.name \in NamesRegistered(history.registered) =>
            token' = token
       /\ Ran("token.New") =>
            /\ token'.services = token.services
            /\ IF call.backend \in NamesRegistered(history.registered)
               THEN /\ ret'.err = nil
                    /\ ret'.calls = <<FirstFactory(history.registered, call.backend)>>
                    /\ ret'.val.factory = FirstFactory(history.registered, call.backend)
               ELSE /\ ret'.err = ErrUnknownTokenService
                    /\ ret'.calls = <<>>
                    /\ ret'.val = NilService
                    /\ token' = token]_vars

\* New was called for a name registered twice, with different factories,
\* and returned the service of the first
C17_Witness ==
    /\ After("token.New")
    /\ ret.err = nil
    /\ Len(history.registered) = 2
    /\ history.registered[1][1] = call.backend
    /\ history.registered[2][1] = call.backend
    /\ history.registered[1][2] # history.registered[2][2]
    /\ ret.val.factory = history.registered[1][2]

(* -------------------------------- C18 ---------------------------------- *)

\* the sequence s begins with the sequence p
Prefix(p, s) == Len(p) <= Len(s) /\ \A i \in 1..Len(p) : s[i] = p[i]

\* C18: callbacks are deferred. A run of Register or RegisterCallback calls
\* no callback and no factory; RegisterCallback(cb) puts cb after the
\* callbacks registered before and changes nothing else. No step takes a
\* callback off the list or reorders it. Only a run of DoCallbacks calls
\* callbacks: it calls the callbacks registered so far, each once for each
\* registration, in the order of registration, changes nothing of the
\* package, and at that time every name Register was called for is bound
\* in the registry.
C18_DeferredCallbacks ==
    [][/\ Ran("token.Register") \/ Ran("token.RegisterCallback") => ret'.calls = <<>>
       /\ Ran("token.RegisterCallback") =>
            /\ token'.callbacks = Append(token.callbacks, call.cb)
            /\ token' = [token EXCEPT !.callbacks = token'.callbacks]
       /\ Prefix(token.callbacks, token'.callbacks)
       /\ ~ret.done /\ ret'.done /\ call.op # "token.DoCallbacks" =>
            \A i \in 1..Len(ret'.calls) : ret'.calls[i] \notin Callbacks
       /\ Ran("token.DoCallbacks") =>
            /\ ret'.calls = token.callbacks
            /\ token' = token
            /\ NamesRegistered(history.registered) \subseteq DOMAIN token.services]_vars

\* DoCallbacks called two different callbacks, after two services were
\* registered
C18_Witness ==
    /\ After("token.DoCallbacks")
    /\ Len(ret.calls) = 2
    /\ ret.calls[1] # ret.calls[2]
    /\ Cardinality(DOMAIN token.services) = 2

(* -------------------------------- C19 ---------------------------------- *)

\* the lifetime GetConfig returns when the package holds the lifetime l
Defaulted(l) == IF l = 0 THEN FiveMinutes ELSE l

\* C19: the configuration of tokens is defaulted and stamped. A run of
\* GetConfig returns the lifetime held, or five minutes when none was set
\* or the one set is zero, and never zero; IssuedAt is the time at the
\* call, NotBefore is not before it and not after the time at the return,
\* and IssuedAt is not before the IssuedAt of the GetConfig before. The
\* clock never goes back. After a run of SetLifetime(t) GetConfig returns
\* t, for t other than zero. The lifetime held changes only in a run of
\* SetLifetime and in a run of GetConfig that finds it zero.
C19_ConfigDefaulting ==
    [][/\ clock' >= clock
       /\ Ran("token.GetConfig") =>
            /\ ret'.val.Lifetime = Defaulted(token.lifetime)
            /\ ret'.val.Lifetime # 0
            /\ token'.lifetime = ret'.val.Lifetime
            /\ ret'.val.IssuedAt = clock
            /\ ret'.val.IssuedAt <= ret'.val.NotBefore
            /\ ret'.val.NotBefore <= clock'
            /\ history.issued # <<>> => ret'.val.IssuedAt >= history.issued[1]
       /\ Ran("token.SetLifetime") =>
            /\ token'.lifetime = call.t
            /\ call.t # 0 =>
                 \A t1, t2 \in 0..MaxClock : GetConfig(token', t1, t2).val.Lifetime = call.t
       /\ token'.lifetime # token.lifetime =>
            \/ Ran("token.SetLifetime")
            \/ Ran("token.GetConfig") /\ token.lifetime = 0]_vars

\* GetConfig returned five minutes some time after the start, and the clock
\* advanced between its two stamps
C19_Witness ==
    /\ After("token.GetConfig")
    /\ ret.val.Lifetime = FiveMinutes
    /\ ret.val.IssuedAt > 0
    /\ ret.val.NotBefore > ret.val.IssuedAt

(* ============== entity.go: concurrent calls of MakeBootstrap =========== *)

\* MakeBootstrap has no lock and bootstrap_done is a plain bool. Each
\* goroutine of Procs calls MakeBootstrap once. Its run is cut at the test
\* of the flag, the LoadEntity, the promotion, the creation, the grant and
\* the assignment of the flag; the calls between two cuts run as one step,
\* so every behaviour here is one of the finer interleaving too.

\* the goroutine p moves to position pc
Goto(p, pc) == [proc[p] EXCEPT !.pc = pc]

\* if emds.bootstrap_done { return }: the read is not synchronized with the
\* assignments of other goroutines and may see the flag as it was initially
BootRead(p) ==
    /\ proc[p].pc = "ready"
    /\ \E ID \in IDs, secret \in Secrets, seen \in {bootstrap_done, FALSE} :
        proc' = [proc EXCEPT ![p] = [Ready EXCEPT !.pc = IF seen THEN "returned" ELSE "load",
                                                  !.ID = ID, !.secret = secret,
                                                  !.seen = seen]]
    /\ UNCHANGED <<db, bootstrap_done, call, ret, tokenVars, registry>>

\* e, err := emds.db.LoadEntity(ID); if e != nil { ... }
BootLoad(p) ==
    /\ proc[p].pc = "load"
    /\ LET e == IF Stored(db, proc[p].ID) THEN db[proc[p].ID] ELSE NilEntity
       IN  proc' = [proc EXCEPT ![p] = [@ EXCEPT !.e = e,
                                                 !.pc = IF e # NilEntity THEN "promote"
                                                        ELSE "create"]]
    /\ UNCHANGED <<db, bootstrap_done, call, ret, tokenVars, registry>>

\* emds.setEntityCapability(e, "GLOBAL_ROOT"), on the record loaded
BootPromote(p) ==
    /\ proc[p].pc = "promote"
    /\ \E F \in FailSets :
        db' = setEntityCapability(Begin(db), F, proc[p].e, "GLOBAL_ROOT").db
    /\ proc' = [proc EXCEPT ![p] = [@ EXCEPT !.pc = "setflag", !.acted = TRUE]]
    /\ UNCHANGED <<bootstrap_done, call, ret, tokenVars, registry>>

\* emds.newEntity(ID, -1, secret); its error is logged
BootCreate(p) ==
    /\ proc[p].pc = "create"
    /\ \E F \in FailSets :
        db' = newEntity(Begin(db), F, proc[p].ID, -1, proc[p].secret).db
    /\ proc' = [proc EXCEPT ![p] = [@ EXCEPT !.pc = "grant", !.acted = TRUE]]
    /\ UNCHANGED <<bootstrap_done, call, ret, tokenVars, registry>>

\* emds.setEntityCapabilityByID(ID, "GLOBAL_ROOT"); its error is logged
BootGrant(p) ==
    /\ proc[p].pc = "grant"
    /\ \E F \in FailSets :
        db' = setEntityCapabilityByID(Begin(db), F, proc[p].ID, "GLOBAL_ROOT").db
    /\ proc' = [proc EXCEPT ![p] = Goto(p, "setflag")]
    /\ UNCHANGED <<bootstrap_done, call, ret, tokenVars, registry>>

\* emds.bootstrap_done = true, and the return
BootSetFlag(p) ==
    /\ proc[p].pc = "setflag"
    /\ bootstrap_done' = TRUE
    /\ proc' = [proc EXCEPT ![p] = Goto(p, "returned")]
    /\ UNCHANGED <<db, call, ret, tokenVars, registry>>

NextBoot ==
    \/ \E p \in Procs : BootRead(p)
    \/ \E p \in Procs : BootLoad(p)
    \/ \E p \in Procs : BootPromote(p)
    \/ \E p \in Procs : BootCreate(p)
    \/ \E p \in Procs : BootGrant(p)
    \/ \E p \in Procs : BootSetFlag(p)

SpecBoot == Init /\ [][NextBoot]_vars

(* -------------------------------- C20 ---------------------------------- *)

\* the calls that found the flag not set
ObservedNotDone == {p \in Procs : proc[p].pc # "ready" /\ ~proc[p].seen}

\* the calls that created or promoted
Acted == {p \in Procs : proc[p].acted}

\* the stored entities that hold GLOBAL_ROOT
Roots == {x \in DOMAIN db : Capability_GLOBAL_ROOT \in Direct(db[x])}

\* C20: concurrent bootstrap is mutually exclusive. Of two concurrent calls
\* of MakeBootstrap at most one finds the flag not set, at most one creates
\* or promotes, and at most one entity holds GLOBAL_ROOT.
C20_BootstrapExclusive ==
    /\ Cardinality(ObservedNotDone) <= 1
    /\ Cardinality(Acted) <= 1
    /\ Cardinality(Roots) <= 1

\* the three parts of C20, each on its own
C20_OneObserver == Cardinality(ObservedNotDone) <= 1
C20_OneActor == Cardinality(Acted) <= 1
C20_OneRoot == Cardinality(Roots) <= 1

(* ================ entity.go: concurrent calls of newEntity ============= *)

\* newEntity holds no lock. Each goroutine of Procs calls newEntity once.
\* Its run is cut at every call of the Storage Port and of the Secret
\* Sealer; each such call is atomic, and SaveEntity writes whatever the
\* store holds.

\* the goroutine p returns err
Returns(p, err) == [proc[p] EXCEPT !.pc = "returned", !.err = err]

\* the call newEntity(ID, uidNumber, secret)
CreateCall(p) ==
    /\ proc[p].pc = "ready"
    /\ \E ID \in IDs, uidNumber \in Numbers, secret \in Secrets :
        proc' = [proc EXCEPT ![p] = [Ready EXCEPT !.pc = "loadID", !.ID = ID,
                                                  !.uidNumber = uidNumber,
                                                  !.asked = uidNumber,
                                                  !.secret = secret]]
    /\ UNCHANGED <<db, bootstrap_done, call, ret, tokenVars, registry>>

\* emds.db.LoadEntity(ID): a stored ID is rejected
CreateLoadID(p) ==
    /\ proc[p].pc = "loadID"
    /\ proc' = [proc EXCEPT ![p] = IF Stored(db, proc[p].ID)
                                   THEN Returns(p, E_DUPLICATE_ID)
                                   ELSE Goto(p, "loadNumber")]
    /\ UNCHANGED <<db, bootstrap_done, call, ret, tokenVars, registry>>

\* emds.db.LoadEntityNumber(uidNumber): a used number is rejected
CreateLoadNumber(p) ==
    /\ proc[p].pc = "loadNumber"
    /\ proc' = [proc EXCEPT ![p] = IF NumberUsed(db, proc[p].uidNumber)
                                   THEN Returns(p, E_DUPLICATE_UIDNUMBER)
                                   ELSE IF proc[p].uidNumber = -1
                                        THEN Goto(p, "nextNumber")
                                        ELSE Goto(p, "save")]
    /\ UNCHANGED <<db, bootstrap_done, call, ret, tokenVars, registry>>

\* uidNumber, err = emds.nextUIDNumber()
CreateNextNumber(p) ==
    /\ proc[p].pc = "nextNumber"
    /\ proc' = [proc EXCEPT ![p] = [@ EXCEPT !.pc = "save",
                                             !.uidNumber = nextUIDNumber(db)]]
    /\ UNCHANGED <<db, bootstrap_done, call, ret, tokenVars, registry>>

\* the record newEntity builds
NewRecord(p) ==
    [ID |-> proc[p].ID, Number |-> proc[p].uidNumber, Secret |-> Plain(proc[p].secret),
     Meta |-> EmptyMeta]

\* a save of the new record that the store refuses for a stored ID or a
\* used number
CreateSave_Conditional(p) ==
    /\ proc[p].pc = "save"
    /\ IF Stored(db, proc[p].ID)
       THEN proc' = [proc EXCEPT ![p] = Returns(p, E_DUPLICATE_ID)] /\ db' = db
       ELSE IF NumberUsed(db, proc[p].uidNumber)
            THEN proc' = [proc EXCEPT ![p] = Returns(p, E_DUPLICATE_UIDNUMBER)] /\ db' = db
            ELSE \E F \in {{}, {1}} :
                    LET s == SaveEntity(Begin(db), F, NewRecord(p))
                    IN  /\ db' = s.db
                        /\ proc' = [proc EXCEPT ![p] = IF s.err # nil
                                                       THEN Returns(p, s.err)
                                                       ELSE Goto(p, "secretLoad")]
    /\ UNCHANGED <<bootstrap_done, call, ret, tokenVars, registry>>

\* emds.db.SaveEntity(newEntity)
CreateSave(p) ==
    /\ proc[p].pc = "save"
    /\ \E F \in {{}, {1}} :
        LET s == SaveEntity(Begin(db), F, NewRecord(p))
        IN  /\ db' = s.db
            /\ proc' = [proc EXCEPT ![p] = IF s.err # nil
                                           THEN Returns(p, s.err)
                                           ELSE Goto(p, "secretLoad")]
    /\ UNCHANGED <<bootstrap_done, call, ret, tokenVars, registry>>

\* setEntitySecretByID: e, err := emds.db.LoadEntity(ID)
CreateSecretLoad(p) ==
    /\ proc[p].pc = "secretLoad"
    /\ proc' = [proc EXCEPT ![p] = IF Stored(db, proc[p].ID)
                                   THEN [@ EXCEPT !.pc = "seal", !.e = db[proc[p].ID]]
                                   ELSE Returns(p, E_NO_ENTITY)]
    /\ UNCHANGED <<db, bootstrap_done, call, ret, tokenVars, registry>>

\* setEntitySecretByID: emds.crypto.SecureSecret(secret); e.Secret = &ssecret
CreateSeal(p) ==
    /\ proc[p].pc = "seal"
    /\ \E failed \in BOOLEAN :
        proc' = [proc EXCEPT ![p] =
                    IF failed
                    THEN Returns(p, ErrCrypto)
                    ELSE [@ EXCEPT !.pc = "secretSave",
                                   !.e.Secret = SecureSecret(proc[p].secret)]]
    /\ UNCHANGED <<db, bootstrap_done, call, ret, tokenVars, registry>>

\* setEntitySecretByID: emds.db.SaveEntity(e), and the return of newEntity
CreateSecretSave(p) ==
    /\ proc[p].pc = "secretSave"
    /\ \E F \in {{}, {1}} :
        LET s == SaveEntity(Begin(db), F, proc[p].e)
        IN  /\ db' = s.db
            /\ proc' = [proc EXCEPT ![p] = Returns(p, s.err)]
    /\ UNCHANGED <<bootstrap_done, call, ret, tokenVars, registry>>

NextCreate ==
    \/ \E p \in Procs : CreateCall(p)
    \/ \E p \in Procs : CreateLoadID(p)
    \/ \E p \in Procs : CreateLoadNumber(p)
    \/ \E p \in Procs : CreateNextNumber(p)
    \/ \E p \in Procs : CreateSave(p)
    \/ \E p \in Procs : CreateSecretLoad(p)
    \/ \E p \in Procs : CreateSeal(p)
    \/ \E p \in Procs : CreateSecretSave(p)

SpecCreate == Init /\ [][NextCreate]_vars

(* -------------------------------- C21 ---------------------------------- *)

\* the goroutine p has passed the lookups of the ID and of the number
PassedLookups(p) ==
    proc[p].pc \in {"nextNumber", "save", "secretLoad", "seal", "secretSave"}

\* the errors of a create that collides
DuplicateErrors == {E_DUPLICATE_ID, E_DUPLICATE_UIDNUMBER}

\* two stored entities of store d have the same Number
SharedNumber(d) == \E x, y \in DOMAIN d : x # y /\ d[x].Number = d[y].Number

\* the goroutine p has returned nil
Succeeded(p) == proc[p].pc = "returned" /\ proc[p].err = nil

\* C21: create checks, then acts. A goroutine that has passed the lookups
\* of newEntity never returns E_DUPLICATE_ID or E_DUPLICATE_UIDNUMBER,
\* whatever the other one stores meanwhile. Its SaveEntity, unless the
\* storage fails, writes its record under its ID whether or not the ID is
\* stored and the number is used by then, and leaves the other entities as
\* they were. The two errors are returned from the lookups only.
C21_CheckThenAct ==
    [][\A p \in Procs :
          /\ PassedLookups(p) => proc'[p].err \notin DuplicateErrors
          /\ proc[p].pc = "save" /\ proc'[p].pc = "secretLoad" =>
                /\ Stored(db', proc[p].ID)
                /\ db'[proc[p].ID] = NewRecord(p)
                /\ OthersSame(db, db', proc[p].ID)
          /\ proc'[p].err \in DuplicateErrors =>
                proc[p].pc \in {"loadID", "loadNumber"} \/ proc[p].err = proc'[p].err]_vars

\* both goroutines asked for the next free number for different IDs, both
\* returned nil, and the two stored entities have the same Number
C21_Witness ==
    /\ \A p \in Procs : Succeeded(p) /\ proc[p].asked = -1
    /\ proc["p1"].ID # proc["p2"].ID
    /\ DOMAIN db = {proc["p1"].ID, proc["p2"].ID}
    /\ SharedNumber(db)

\* both goroutines asked for the same number for different IDs, both
\* returned nil, and the two stored entities have that Number
C21_SharedExplicitNumber ==
    /\ \A p \in Procs : Succeeded(p) /\ proc[p].asked = 2
    /\ proc["p1"].ID # proc["p2"].ID
    /\ \A p \in Procs : Stored(db, proc[p].ID) /\ db[proc[p].ID].Number = 2

\* both goroutines created the same ID with different secrets and numbers,
\* both returned nil, and the store holds the record of one of them only
C21_Overwritten ==
    /\ \A p \in Procs : Succeeded(p)
    /\ proc["p1"].ID = proc["p2"].ID
    /\ proc["p1"].secret # proc["p2"].secret
    /\ proc["p1"].uidNumber # proc["p2"].uidNumber
    /\ DOMAIN db = {proc["p1"].ID}
    /\ db[proc["p1"].ID].Secret = SecureSecret(proc["p2"].secret)
    /\ db[proc["p1"].ID].Number = proc["p2"].uidNumber

(* -------------------------------- C22 ---------------------------------- *)

\* the stored entities of store d whose secret is neither empty nor sealed
PlaintextStored(d) == {x \in DOMAIN d : ~d[x].Secret.sealed /\ d[x].Secret.text # ""}

\* C22: the store never holds a plaintext credential. In every reachable
\* state the Secret of every stored entity is empty or a sealed form made by
\* the Secret Sealer.
C22_NoPlaintextStored == PlaintextStored(db) = {}

\* C22 after a create: when a run of newEntity or NewEntity has returned,
\* with or without an error, the entity it was called for is not stored
\* with the secret as given
C22_NoPlaintextLeftBehind ==
    After("newEntity") \/ After("NewEntity") =>
        LET ID == IF call.op = "newEntity" THEN call.ID ELSE call.newID
        IN  ID \notin PlaintextStored(db)

(* ------------- C23: an unresolvable stage ------------------------------ *)

\* the stage each operation of the Manager resolves
StageOf ==
    [op \in {c.op : c \in StageCalls} |->
        CASE op = "Manager.NewEntity" -> "CREATE"
          [] op = "Manager.MakeBootstrap" -> "BOOTSTRAP-SERVER"
          [] op = "Manager.DeleteEntityByID" -> "DESTROY"
          [] op = "Manager.SetEntityCapabilityByID" -> "SET-CAPABILITY"
          [] op = "Manager.RemoveEntityCapabilityByID" -> "DROP-CAPABILITY"
          [] op = "Manager.SetEntitySecretByID" -> "SET-SECRET"
          [] op = "Manager.ValidateSecret" -> "VALIDATE-IDENTITY"
          [] op = "Manager.GetEntity" -> "FETCH"
          [] op = "Manager.UpdateEntityMeta" -> "MERGE-METADATA"
          [] op = "Manager.LockEntity" -> "LOCK"
          [] op = "Manager.UnlockEntity" -> "UNLOCK"]

\* the operation that is running resolves a stage with no hook chain
Unresolvable ==
    /\ call.op \in DOMAIN StageOf
    /\ Ran(call.op)
    /\ StageOf[call.op] \notin DOMAIN registry

\* the run ends the process and has changed nothing
FatalOutcome ==
    /\ ret'.err = Fatal
    /\ ret'.calls = <<>>
    /\ db' = db
    /\ bootstrap_done' = bootstrap_done

\* C23: an operation of the Entity Service whose stage has no registered
\* hook chain ends in the fatal outcome: it returns no ordinary error, does
\* not succeed and does not change the store.
C23_UnresolvableStageIsFatal == [][Unresolvable => FatalOutcome]_vars

\* C23, every operation but the create: the fatal outcome
C23_FatalButCreate ==
    [][Unresolvable /\ call.op # "Manager.NewEntity" => FatalOutcome]_vars

\* C23, the create: the error of the resolution is returned to the caller as
\* an ordinary error; the store is unchanged
C23_CreateReturnsError ==
    [][Unresolvable /\ call.op = "Manager.NewEntity" =>
          /\ ret'.err = ErrUnknownHookChain
          /\ ret'.calls = <<>>
          /\ db' = db]_vars

\* C23: a create with no CREATE chain has returned an ordinary error, and
\* the caller may take it and call again
C23_CreateReturned ==
    /\ After("Manager.NewEntity")
    /\ "CREATE" \notin DOMAIN registry
    /\ ret.err = ErrUnknownHookChain

\* C23: another operation with its stage unregistered has ended the process
C23_FatalReached ==
    /\ call.op \in DOMAIN StageOf \ {"Manager.NewEntity"}
    /\ ret.done
    /\ StageOf[call.op] \notin DOMAIN registry
    /\ ret.err = Fatal

====
